---------------------------- MODULE Spec2Model ----------------------------
(***************************************************************************)
(* A model of the cycling-results scraper:                                 *)
(*   - the fetch client      (improved_async_scraper.py, make_request)     *)
(*   - the progress tracker  (progress_tracker.py)                         *)
(*   - the persistence layer (improved_async_scraper.py, save_*_data)      *)
(*   - the crawl driver      (main.py, scrape_year_with_progress)          *)
(* Each subsystem has its own specification over the shared variables.     *)
(***************************************************************************)
EXTENDS Integers, Sequences, FiniteSets, TLC

(***************************************************************************)
(* Bounds of the model and configuration values.                           *)
(***************************************************************************)
\* number of coroutines that may call make_request concurrently
NumTasks == 2
\* ScrapingConfig.max_concurrent_requests as configured for the model
MaxConcurrent == 1
\* ScrapingConfig.max_retries (the default)
MaxRetries == 3
\* make_request calls started in one behaviour (caps the stats counters)
MaxCalls == 2
\* ScrapingConfig.retry_delay (seconds)
retry_delay == 1
\* mark_race_completed calls counted in one session (caps the counters)
MaxProcessed == 2
\* sessions started in one behaviour (caps the session ids)
MaxSessions == 2
\* tracker steps in one behaviour of the crash specification
MaxOps == 4
\* saves made in one behaviour of the persistence specification
MaxDbOps == 4
\* runs of main started in one behaviour of the crawl specification
MaxRuns == 2
\* saves started in one behaviour of the concurrent-saves specification
MaxSaves == 3
\* results-class tables on one classification page
MaxTables == 3
\* longest target_years list passed to get_remaining_years
MaxTarget == 3
\* _cleanup_old_backups keeps backup_files[:10]
Retention == 10

Tasks == 1..NumTasks

None == "None"

VARIABLES
    \* ---- fetch client ----
    semaphore,      \* free permits of asyncio.Semaphore(max_concurrent_requests)
    pc,             \* per task: "idle", "acquire", "inflight", "sleep", "done"
    attempt,        \* per task: loop variable of `for attempt in range(...)`
    max_retries,    \* per task: the local max_retries after `or` defaulting
    wait_time,      \* per task: duration of the sleep the task is in (0: none)
    prev_wait,      \* per task: duration of the previous sleep of the call that
                    \* is retrying (0: none)
    last_status,    \* per task: outcome of the latest attempt of the call
    result,         \* per task: value returned by the finished call
    stats,          \* ScrapingStats counters
    calls,          \* number of make_request calls started
    \* ---- progress tracker ----
    alive,            \* the process runs (FALSE after a crash)
    current_progress, \* <<>> for None, <<p>> for a ScrapingProgress p
    progress_file,    \* <<>> when absent, else <<[data, complete]>>
    temp_file,        \* progress_file.with_suffix('.tmp'), same shape
    backups,          \* number of cycling_data_backup_*.db files
    database_exists,  \* self.database_path.exists()
    next_session,     \* the session id the clock yields next
    crashed_op,       \* <<>>, or what the operation a crash cut was saving
    returned,         \* <<>>, or <<[args, value]>> of the get_remaining_years
                      \* call that has just returned
    ops,              \* tracker steps taken (counted where a run is bounded)
    \* ---- persistence layer ----
    config,           \* the overwrite flags of ScrapingConfig
    races,            \* rows of table races
    stages,           \* rows of table stages
    results,          \* rows of table results
    sequence,         \* sqlite_sequence: the last AUTOINCREMENT id per table
    db_returned,      \* <<>>, or <<[op, args, value]>> of the save that has
                      \* just returned
    db_ops,           \* saves made
    \* ---- crawl driver ----
    crawl_pc,         \* "idle" (no process), "year", "race", "year_end"
    remaining_years,  \* main's remaining_years: the list passed to the scraper
    years_todo,       \* the years scrape_years_with_progress still has to do
    batch,            \* the races of the batch not yet processed
    race_infos,       \* per race of the batch: <<>> (None) or <<race_info>>
    fetched,          \* the pages fetched since the run started
    at_start,         \* the completed sets of the session the run started
                      \* from, and whether json.load raised on its file
    runs,             \* runs of main started
    \* ---- recovery of an interrupted crawl ----
    content,          \* <<>>, or <<c>>: what the pages of the site yield
    interrupted,      \* "", or the last write made before the process died
                      \* inside the processing of a race
    \* ---- concurrent saves ----
    save_pc,          \* per coroutine: the await its save is at
    save_call,        \* per coroutine: the arguments and locals of its save
    writer,           \* the coroutine whose connection holds the database's
                      \* write lock (0: none)
    pending,          \* <<>>, or <<db>>: the writer's uncommitted database
    save_calls,       \* saves started
    \* ---- classification pages ----
    all_tables,       \* soup.find_all('table', class_='results')
    classification_url, \* the URL the page was fetched from
    chosen,           \* <<>>, or <<outcome>> of _find_classification_table
    \* ---- single calls ----
    unlinked,         \* backup files the latest create_checkpoint removed
    evaluated         \* <<>>, or <<[op, args, value]>> of the function that
                      \* has just been evaluated

fetchVars == <<semaphore, pc, attempt, max_retries, wait_time, prev_wait,
               last_status, result, stats, calls>>

trackerVars == <<alive, current_progress, progress_file, temp_file, backups,
                 database_exists, next_session, crashed_op, returned>>

dbVars == <<config, races, stages, results, sequence, db_returned, db_ops>>

crawlVars == <<crawl_pc, remaining_years, years_todo, batch, race_infos, fetched,
               at_start, runs>>

recoveryVars == <<content, interrupted>>

saveVars == <<save_pc, save_call, writer, pending, save_calls>>

tableVars == <<all_tables, classification_url, chosen>>

callVars == <<unlinked, evaluated>>

otherVars == <<recoveryVars, saveVars, tableVars, callVars>>

vars == <<fetchVars, trackerVars, ops, dbVars, crawlVars, otherVars>>

(***************************************************************************)
(* Fetch client: ImprovedAsyncCyclingDataScraper.make_request              *)
(***************************************************************************)
\* outcomes of one `session.get(url)`
Statuses == {"200", "404", "429", "500", "timeout", "error"}

\* values a caller passes for the max_retries parameter: <<>> when the
\* argument is omitted (None), <<m>> when m is passed
RetryArgs == {<<>>} \cup {<<m>> : m \in 0..MaxRetries}

\* `max_retries = max_retries or self.config.max_retries`
EffectiveRetries(arg) ==
    IF arg = <<>> THEN MaxRetries
    ELSE IF arg[1] = 0 THEN MaxRetries ELSE arg[1]

\* asyncio.Semaphore.acquire proceeds only while a permit is free
CanAcquireMut(s) == TRUE
CanAcquire(s) == s > 0

RECURSIVE Pow2(_)
Pow2(k) == IF k = 0 THEN 1 ELSE 2 * Pow2(k - 1)

\* what one attempt's outcome makes the loop do:
\*   "return_text", "return_none", or "sleep" (then `continue`), with the wait
OutcomeStepMut(status, att, maxr) ==
    CASE status = "200" -> [do |-> "return_text", wait |-> 0]
      [] status = "429" -> [do |-> "sleep", wait |-> (att + 1) * retry_delay]
      [] OTHER -> IF att < maxr
                  THEN [do |-> "sleep", wait |-> retry_delay]
                  ELSE [do |-> "return_none", wait |-> 0]
OutcomeStep(status, att, maxr) ==
    CASE status = "200" -> [do |-> "return_text", wait |-> 0]
      [] status = "404" -> [do |-> "return_none", wait |-> 0]
      [] status = "429" -> [do |-> "sleep", wait |-> (att + 1) * retry_delay]
      [] OTHER -> IF att < maxr
                  THEN [do |-> "sleep", wait |-> retry_delay]
                  ELSE [do |-> "return_none", wait |-> 0]

InitFetch ==
    /\ semaphore = MaxConcurrent
    /\ pc = [t \in Tasks |-> "idle"]
    /\ attempt = [t \in Tasks |-> 0]
    /\ max_retries = [t \in Tasks |-> MaxRetries]
    /\ wait_time = [t \in Tasks |-> 0]
    /\ prev_wait = [t \in Tasks |-> 0]
    /\ last_status = [t \in Tasks |-> None]
    /\ result = [t \in Tasks |-> None]
    /\ stats = [total_requests |-> 0, successful_requests |-> 0,
                failed_requests |-> 0]
    /\ calls = 0

\* a coroutine calls make_request(url, max_retries=arg) and reaches
\* `async with self.semaphore`
MakeRequest(t, arg) ==
    /\ pc[t] = "idle"
    /\ calls < MaxCalls
    /\ calls' = calls + 1
    /\ max_retries' = [max_retries EXCEPT ![t] = EffectiveRetries(arg)]
    /\ pc' = [pc EXCEPT ![t] = "acquire"]
    /\ attempt' = [attempt EXCEPT ![t] = 0]
    /\ wait_time' = [wait_time EXCEPT ![t] = 0]
    /\ prev_wait' = [prev_wait EXCEPT ![t] = 0]
    /\ last_status' = [last_status EXCEPT ![t] = None]
    /\ result' = [result EXCEPT ![t] = None]
    /\ UNCHANGED <<semaphore, stats>>

\* the semaphore is acquired, the loop starts with attempt 0 and the request
\* is issued
Acquire(t) ==
    /\ pc[t] = "acquire"
    /\ CanAcquire(semaphore)
    /\ semaphore' = semaphore - 1
    /\ stats' = [stats EXCEPT !.total_requests = @ + 1]
    /\ pc' = [pc EXCEPT ![t] = "inflight"]
    /\ UNCHANGED <<attempt, max_retries, wait_time, prev_wait, last_status,
                   result, calls>>

\* the request of the current attempt ends with `status`
Respond(t, status) ==
    /\ pc[t] = "inflight"
    /\ LET step == OutcomeStep(status, attempt[t], max_retries[t]) IN
       /\ last_status' = [last_status EXCEPT ![t] = status]
       /\ IF step.do = "sleep"
          THEN /\ pc' = [pc EXCEPT ![t] = "sleep"]
               /\ wait_time' = [wait_time EXCEPT ![t] = step.wait]
               /\ UNCHANGED <<semaphore, stats, result, prev_wait>>
          ELSE /\ pc' = [pc EXCEPT ![t] = "done"]
               /\ wait_time' = [wait_time EXCEPT ![t] = 0]
               /\ prev_wait' = [prev_wait EXCEPT ![t] = 0]
               /\ semaphore' = semaphore + 1
               /\ result' = [result EXCEPT ![t] =
                               IF step.do = "return_text" THEN "text" ELSE None]
               /\ stats' = IF step.do = "return_text"
                           THEN [stats EXCEPT !.successful_requests = @ + 1]
                           ELSE stats
    /\ UNCHANGED <<attempt, max_retries, calls>>

\* the sleep ends and `continue` takes the loop to the next attempt, or the
\* loop is exhausted and the call falls through to the failure return
WakeUp(t) ==
    /\ pc[t] = "sleep"
    /\ wait_time' = [wait_time EXCEPT ![t] = 0]
    /\ IF attempt[t] + 1 <= max_retries[t]
       THEN /\ attempt' = [attempt EXCEPT ![t] = @ + 1]
            /\ prev_wait' = [prev_wait EXCEPT ![t] = wait_time[t]]
            /\ stats' = [stats EXCEPT !.total_requests = @ + 1]
            /\ pc' = [pc EXCEPT ![t] = "inflight"]
            /\ UNCHANGED <<semaphore, result>>
       ELSE /\ stats' = [stats EXCEPT !.failed_requests = @ + 1]
            /\ pc' = [pc EXCEPT ![t] = "done"]
            /\ semaphore' = semaphore + 1
            /\ result' = [result EXCEPT ![t] = None]
            /\ prev_wait' = [prev_wait EXCEPT ![t] = 0]
            /\ UNCHANGED attempt
    /\ UNCHANGED <<max_retries, last_status, calls>>

\* the caller takes the returned value; the coroutine may call again
Return(t) ==
    /\ pc[t] = "done"
    /\ pc' = [pc EXCEPT ![t] = "idle"]
    /\ attempt' = [attempt EXCEPT ![t] = 0]
    /\ last_status' = [last_status EXCEPT ![t] = None]
    /\ result' = [result EXCEPT ![t] = None]
    /\ max_retries' = [max_retries EXCEPT ![t] = MaxRetries]
    /\ UNCHANGED <<semaphore, wait_time, prev_wait, stats, calls>>

(***************************************************************************)
(* Progress tracker: progress_tracker.py                                   *)
(***************************************************************************)
Years == {2019, 2020, 2021}
Races == {"race/a/2020", "race/b/2020"}

\* (stages_count, results_count) arguments of mark_race_completed
CountArgs == {<<0, 0>>, <<1, 2>>}

Min(a, b) == IF a <= b THEN a ELSE b
Last(seq) == seq[Len(seq)]

\* ScrapingProgress(session_id=..., start_time=...) with the field defaults
ScrapingProgress(id) ==
    [session_id |-> id,
     completed_years |-> {}, failed_years |-> {},
     completed_races |-> {}, failed_races |-> {},
     total_races_processed |-> 0,
     total_stages_processed |-> 0,
     total_results_processed |-> 0,
     last_checkpoint |-> FALSE,
     estimated_completion |-> FALSE]

\* the files the tracker owns, as one value
FileSystem ==
    [progress_file |-> progress_file, temp_file |-> temp_file,
     backups |-> backups]

\* a file holding the JSON text of `data`, whole or cut short
File(data, complete) == <<[data |-> data, complete |-> complete]>>

\* `list(a_set)`: the elements in some order; `set(a_list)`
RECURSIVE ListOf(_)
ListOf(S) ==
    IF S = {} THEN <<>>
    ELSE LET x == CHOOSE e \in S : TRUE IN <<x>> \o ListOf(S \ {x})
SetOf(l) == {l[k] : k \in DOMAIN l}

\* the `data` dict save_progress dumps: the sets as lists, a datetime as its
\* isoformat text (<<"iso">>) or None (<<>>)
to_json(p) ==
    [session_id |-> p.session_id,
     completed_years |-> ListOf(p.completed_years),
     failed_years |-> ListOf(p.failed_years),
     completed_races |-> ListOf(p.completed_races),
     failed_races |-> ListOf(p.failed_races),
     total_races_processed |-> p.total_races_processed,
     total_stages_processed |-> p.total_stages_processed,
     total_results_processed |-> p.total_results_processed,
     last_checkpoint |-> IF p.last_checkpoint THEN <<"iso">> ELSE <<>>,
     estimated_completion |->
         IF p.estimated_completion THEN <<"iso">> ELSE <<>>]
\* the ScrapingProgress load_progress builds from the dict, forgetting the
\* failed races
from_jsonMut(data) ==
    [session_id |-> data.session_id,
     completed_years |-> SetOf(data.completed_years),
     failed_years |-> SetOf(data.failed_years),
     completed_races |-> SetOf(data.completed_races),
     failed_races |-> {},
     total_races_processed |-> data.total_races_processed,
     total_stages_processed |-> data.total_stages_processed,
     total_results_processed |-> data.total_results_processed,
     last_checkpoint |-> data.last_checkpoint # <<>>,
     estimated_completion |-> data.estimated_completion # <<>>]
\* the ScrapingProgress load_progress builds from the dict
from_json(data) ==
    [session_id |-> data.session_id,
     completed_years |-> SetOf(data.completed_years),
     failed_years |-> SetOf(data.failed_years),
     completed_races |-> SetOf(data.completed_races),
     failed_races |-> SetOf(data.failed_races),
     total_races_processed |-> data.total_races_processed,
     total_stages_processed |-> data.total_stages_processed,
     total_results_processed |-> data.total_results_processed,
     last_checkpoint |-> data.last_checkpoint # <<>>,
     estimated_completion |-> data.estimated_completion # <<>>]

\* load_progress: None when the file is absent or json.load raises
load_progress(file) ==
    IF file = <<>> THEN <<>>
    ELSE IF file[1].complete THEN <<from_json(file[1].data)>> ELSE <<>>

\* save_progress: the file-system states the call passes through, in order:
\* temp file opened for writing, temp file written and closed, temp file
\* renamed over the progress file.  No step when there is no session.
save_progressMut(p, fs) ==
    IF p = <<>> THEN <<>>
    ELSE << [fs EXCEPT !.progress_file = File(to_json(p[1]), FALSE)],
            [fs EXCEPT !.progress_file = File(to_json(p[1]), TRUE)],
            [fs EXCEPT !.progress_file = File(to_json(p[1]), TRUE)] >>
save_progress(p, fs) ==
    IF p = <<>> THEN <<>>
    ELSE << [fs EXCEPT !.temp_file = File(to_json(p[1]), FALSE)],
            [fs EXCEPT !.temp_file = File(to_json(p[1]), TRUE)],
            [fs EXCEPT !.temp_file = <<>>,
                       !.progress_file = File(to_json(p[1]), TRUE)] >>

\* the session as create_checkpoint leaves it
Checkpointed(p, dbx) ==
    IF dbx /\ p # <<>> THEN <<[p[1] EXCEPT !.last_checkpoint = TRUE]>> ELSE p

\* a create_checkpoint that never removes a backup
create_checkpointMut(p, fs, dbx, same_second) ==
    IF ~dbx THEN <<>>
    ELSE LET copied == [fs EXCEPT !.backups =
                          IF same_second /\ @ > 0 THEN @ ELSE @ + 1]
         IN  <<copied>> \o save_progress(Checkpointed(p, dbx), copied)

\* create_checkpoint: the file-system states it passes through: the backup
\* copied (onto the file of the same second when same_second), the progress
\* saved, the old backups removed
create_checkpoint(p, fs, dbx, same_second) ==
    IF ~dbx THEN <<>>
    ELSE LET copied == [fs EXCEPT !.backups =
                          IF same_second /\ @ > 0 THEN @ ELSE @ + 1]
             saved == <<copied>> \o save_progress(Checkpointed(p, dbx), copied)
             cleaned == [Last(saved) EXCEPT !.backups = Min(@, Retention)]
         IN  saved \o <<cleaned>>

\* the four in-memory updates
year_completed(p, year) ==
    [p EXCEPT !.completed_years = @ \cup {year},
              !.failed_years = @ \ {year}]
year_failedMut(p, year) ==
    [p EXCEPT !.failed_years = @ \cup {year},
              !.completed_years = @ \ {year}]
year_failed(p, year) ==
    [p EXCEPT !.failed_years = @ \cup {year}]
race_completed(p, race_url, stages_count, results_count) ==
    [p EXCEPT !.completed_races = @ \cup {race_url},
              !.failed_races = @ \ {race_url},
              !.total_races_processed = @ + 1,
              !.total_stages_processed = @ + stages_count,
              !.total_results_processed = @ + results_count]
race_failed(p, race_url) ==
    [p EXCEPT !.failed_races = @ \cup {race_url}]

\* get_remaining_years: the list comprehension, element by element
RECURSIVE RemainingOfMut(_, _)
RemainingOfMut(p, target) ==
    IF target = <<>> THEN <<>>
    ELSE IF Head(target) \notin p.completed_years
         THEN <<Head(target)>> \o RemainingOfMut(p, Tail(target))
         ELSE RemainingOfMut(p, Tail(target))
RECURSIVE RemainingOf(_, _)
RemainingOf(p, target) ==
    IF target = <<>> THEN <<>>
    ELSE IF Head(target) \notin p.completed_years
            /\ Head(target) \notin p.failed_years
         THEN <<Head(target)>> \o RemainingOf(p, Tail(target))
         ELSE RemainingOf(p, Tail(target))
get_remaining_years(cp, target) ==
    IF cp = <<>> THEN target ELSE RemainingOf(cp[1], target)

\* a should_skip_year that also skips the years that failed
should_skip_yearMut(cp, year) ==
    IF cp = <<>> THEN FALSE
    ELSE year \in cp[1].completed_years \cup cp[1].failed_years

should_skip_year(cp, year) ==
    IF cp = <<>> THEN FALSE ELSE year \in cp[1].completed_years
should_skip_race(cp, race_url) ==
    IF cp = <<>> THEN FALSE ELSE race_url \in cp[1].completed_races

InitTracker ==
    /\ alive = TRUE
    /\ current_progress = <<>>
    /\ progress_file = <<>>
    /\ temp_file = <<>>
    /\ backups = 0
    /\ database_exists \in BOOLEAN
    /\ next_session = 1
    /\ crashed_op = <<>>
    /\ returned = <<>>
    /\ ops = 0

\* the tracker's files become the file-system value fs
SetFiles(fs) ==
    /\ progress_file' = fs.progress_file
    /\ temp_file' = fs.temp_file
    /\ backups' = fs.backups

\* An operation that leaves the session p and passes through the file-system
\* states `steps` either runs to its end (crash_at = 0) or is cut by a crash
\* of the process right after step crash_at; `saving` are the sessions it
\* was saving.
Finish(p, steps, crash_at, saving) ==
    /\ crash_at \in 0..(Len(steps) - 1)
    /\ IF crash_at = 0
       THEN /\ current_progress' = p
            /\ IF steps = <<>> THEN UNCHANGED <<progress_file, temp_file, backups>>
               ELSE SetFiles(Last(steps))
            /\ UNCHANGED <<alive, crashed_op>>
       ELSE /\ current_progress' = <<>>
            /\ alive' = FALSE
            /\ SetFiles(steps[crash_at])
            /\ crashed_op' = <<[before |-> progress_file, saving |-> saving]>>

CrashPoints == 0..8

\* start_session: resume the loaded session (answer 'y') or start a new one
start_session(resume, crash_at) ==
    /\ alive
    /\ current_progress = <<>>
    /\ LET existing == load_progress(progress_file) IN
       IF existing # <<>> /\ resume
       THEN /\ crash_at = 0
            /\ current_progress' = existing
            /\ UNCHANGED <<alive, progress_file, temp_file, backups,
                           next_session, crashed_op>>
       ELSE /\ next_session <= MaxSessions
            /\ next_session' = next_session + 1
            /\ LET p == <<ScrapingProgress(next_session)>> IN
               Finish(p, save_progress(p, FileSystem), crash_at, {p[1]})
    /\ returned' = <<>>
    /\ UNCHANGED database_exists

mark_year_completed(year, same_second, crash_at) ==
    /\ alive
    /\ IF current_progress = <<>>
       THEN /\ crash_at = 0
            /\ ~same_second
            /\ UNCHANGED <<alive, current_progress, progress_file, temp_file,
                           backups, crashed_op>>
       ELSE LET p == <<year_completed(current_progress[1], year)>>
                s1 == save_progress(p, FileSystem)
                s2 == create_checkpoint(p, Last(s1), database_exists, same_second)
                q == Checkpointed(p, database_exists)
            IN  Finish(q, s1 \o s2, crash_at, {p[1], q[1]})
    /\ returned' = <<>>
    /\ UNCHANGED <<database_exists, next_session>>

mark_year_failed(year, crash_at) ==
    /\ alive
    /\ IF current_progress = <<>>
       THEN /\ crash_at = 0
            /\ UNCHANGED <<alive, current_progress, progress_file, temp_file,
                           backups, crashed_op>>
       ELSE LET p == <<year_failed(current_progress[1], year)>> IN
            Finish(p, save_progress(p, FileSystem), crash_at, {p[1]})
    /\ returned' = <<>>
    /\ UNCHANGED <<database_exists, next_session>>

mark_race_completed(race_url, counts, crash_at) ==
    /\ alive
    /\ IF current_progress = <<>>
       THEN /\ crash_at = 0
            /\ UNCHANGED <<alive, current_progress, progress_file, temp_file,
                           backups, crashed_op>>
       ELSE /\ current_progress[1].total_races_processed < MaxProcessed
            /\ LET p == <<race_completed(current_progress[1], race_url,
                                         counts[1], counts[2])>> IN
               Finish(p, save_progress(p, FileSystem), crash_at, {p[1]})
    /\ returned' = <<>>
    /\ UNCHANGED <<database_exists, next_session>>

mark_race_failed(race_url, crash_at) ==
    /\ alive
    /\ IF current_progress = <<>>
       THEN /\ crash_at = 0
            /\ UNCHANGED <<alive, current_progress, progress_file, temp_file,
                           backups, crashed_op>>
       ELSE LET p == <<race_failed(current_progress[1], race_url)>> IN
            Finish(p, save_progress(p, FileSystem), crash_at, {p[1]})
    /\ returned' = <<>>
    /\ UNCHANGED <<database_exists, next_session>>

\* reset_session: the progress file is moved aside, the session dropped
reset_session ==
    /\ alive
    /\ progress_file' = <<>>
    /\ current_progress' = <<>>
    /\ returned' = <<>>
    /\ UNCHANGED <<alive, temp_file, backups, database_exists, next_session,
                   crashed_op>>

GetRemainingYears(target) ==
    /\ alive
    /\ returned' = <<[args |-> target,
                       value |-> get_remaining_years(current_progress, target)]>>
    /\ UNCHANGED <<alive, current_progress, progress_file, temp_file, backups,
                   database_exists, next_session, crashed_op>>

\* should_skip_year / should_skip_race are called and return
ShouldSkipYear(year) ==
    /\ alive
    /\ returned' = <<[op |-> "should_skip_year", args |-> <<year>>,
                       value |-> should_skip_year(current_progress, year)]>>
    /\ UNCHANGED <<alive, current_progress, progress_file, temp_file, backups,
                   database_exists, next_session, crashed_op>>
ShouldSkipRace(race_url) ==
    /\ alive
    /\ returned' = <<[op |-> "should_skip_race", args |-> <<race_url>>,
                       value |-> should_skip_race(current_progress, race_url)]>>
    /\ UNCHANGED <<alive, current_progress, progress_file, temp_file, backups,
                   database_exists, next_session, crashed_op>>

\* create_checkpoint called on its own ("Manual checkpoint")
CreateCheckpoint(same_second) ==
    /\ alive
    /\ LET steps == create_checkpoint(current_progress, FileSystem,
                                      database_exists, same_second)
       IN  IF steps = <<>>
           THEN /\ unlinked' = 0
                /\ UNCHANGED <<current_progress, progress_file, temp_file,
                               backups>>
           ELSE /\ unlinked' = steps[1].backups - Last(steps).backups
                /\ current_progress' =
                      Checkpointed(current_progress, database_exists)
                /\ SetFiles(Last(steps))
    /\ returned' = <<>>
    /\ UNCHANGED <<alive, database_exists, next_session, crashed_op, evaluated>>

\* the process dies between two operations
Crash ==
    /\ alive
    /\ alive' = FALSE
    /\ current_progress' = <<>>
    /\ returned' = <<>>
    /\ UNCHANGED <<progress_file, temp_file, backups, database_exists,
                   next_session, crashed_op>>

\* a new process is started: ProgressTracker() with current_progress = None
Restart ==
    /\ ~alive
    /\ alive' = TRUE
    /\ crashed_op' = <<>>
    /\ returned' = <<>>
    /\ UNCHANGED <<current_progress, progress_file, temp_file, backups,
                   database_exists, next_session>>

(***************************************************************************)
(* Persistence layer: save_race_data, save_stage_data, save_results_data   *)
(* of ImprovedAsyncCyclingDataScraper, on the schema of init_database      *)
(***************************************************************************)
Null == "NULL"

\* race names as token lists: a leading "»", an edition year in front or
\* behind, the name itself
NumberTokens == {"2020"}
DbYears == {2020}
StageUrls == {"race/a/2020/stage-1", "race/b/2020/stage-1"}
Distances == {"165.1", "180"}

\* clean_race_name: strip a leading "»", a leading year and trailing
\* numbers; "Unknown" when nothing is left
StripLeading(name, toks) ==
    IF name # <<>> /\ Head(name) \in toks THEN Tail(name) ELSE name
StripTrailing(name, toks) ==
    IF name # <<>> /\ name[Len(name)] \in toks
    THEN SubSeq(name, 1, Len(name) - 1) ELSE name
clean_race_name(race_name) ==
    IF race_name = <<>> THEN <<"Unknown">>
    ELSE LET a == StripLeading(race_name, {"»"})
             b == StripLeading(a, NumberTokens)
             c == StripTrailing(b, NumberTokens)
             d == StripTrailing(c, NumberTokens)
         IN  IF d = <<>> THEN <<"Unknown">> ELSE d

\* generate_race_key: f"{year}_{clean_name}"
generate_race_key(year, race_name) == <<year>> \o clean_race_name(race_name)

\* f"{year}_»{race_data['race_name']}"
old_race_key(year, race_name) == <<year, "»">> \o race_name

\* the race_data a race page yields: name and the first stage url. The same
\* race under two spellings, another race, and another race whose first
\* stage url is that of the first
RaceData ==
    { [race_name |-> <<"Tour">>, stage_url |-> "race/a/2020/stage-1"],
      [race_name |-> <<"»", "Tour", "2020">>,
       stage_url |-> "race/a/2020/stage-1"],
      [race_name |-> <<"Giro">>, stage_url |-> "race/b/2020/stage-1"],
      [race_name |-> <<"Giro">>, stage_url |-> "race/a/2020/stage-1"] }
\* the stage_info a stage page yields
StageData == [stage_url : StageUrls, distance : Distances]
\* parsed result rows: rider identity, rank, time
Result(rider, rank, time) == [rider |-> rider, rank |-> rank, time |-> time]
\* the results lists a stage page can yield: none, one rider, two riders,
\* and one rider listed twice (the same row, another rank, no rank)
ResultLists ==
    { <<>>,
      <<Result("a", "1", "4:00:00")>>,
      <<Result("b", "2", "4:00:05")>>,
      <<Result("a", "1", "4:00:00"), Result("b", "2", "4:00:05")>>,
      <<Result("a", "1", "4:00:00"), Result("a", "1", "4:00:00")>>,
      <<Result("a", "1", "4:00:00"), Result("a", "2", "4:00:00")>>,
      <<Result("a", Null, Null), Result("a", Null, Null)>> }

\* the write policies: skip-if-exists (no flag), overwrite everything,
\* overwrite stages and results only
Policies ==
    { [overwrite_existing_data |-> FALSE, overwrite_stages |-> FALSE,
       overwrite_results |-> FALSE],
      [overwrite_existing_data |-> TRUE, overwrite_stages |-> FALSE,
       overwrite_results |-> FALSE],
      [overwrite_existing_data |-> FALSE, overwrite_stages |-> TRUE,
       overwrite_results |-> TRUE] }

\* ScrapingConfig() with its defaults: no overwrite flag set
DefaultPolicy ==
    [overwrite_existing_data |-> FALSE, overwrite_stages |-> FALSE,
     overwrite_results |-> FALSE]

\* the tables as init_database creates them
InitDb ==
    /\ races = {}
    /\ stages = {}
    /\ results = {}
    /\ sequence = [races |-> 0, stages |-> 0, results |-> 0]
    /\ db_returned = <<>>
    /\ db_ops = 0

MinOf(S) == CHOOSE x \in S : \A y \in S : x <= y

\* cursor.fetchone() of `SELECT id ...`: <<>> for no row, else <<id>> of the
\* first row
FetchOneId(rows) ==
    IF rows = {} THEN <<>> ELSE <<MinOf({r.id : r \in rows})>>

\* a save_race_data that never finds the race it is about to save
ExistingRaceMut(rs, year, data) == <<>>

\* the three lookups of save_race_data, in order
ExistingRace(rs, year, data) ==
    LET by_key == FetchOneId({r \in rs :
                      r.race_key = generate_race_key(year, data.race_name)})
        by_old == FetchOneId({r \in rs :
                      r.race_key = old_race_key(year, data.race_name)})
        by_url == FetchOneId({r \in rs :
                      r.stage_url = data.stage_url /\ r.year = year})
    IN  IF by_key # <<>> THEN by_key
        ELSE IF by_old # <<>> THEN by_old
        ELSE by_url

\* the unique index idx_results_unique on (stage_id, rider_name, rank, time,
\* status): a row conflicts with a stored one when all indexed columns are
\* equal and none is NULL
Conflicts(rows, row) ==
    \E r \in rows :
        /\ r.stage_id = row.stage_id
        /\ r.rider = row.rider
        /\ r.rank = row.rank /\ r.rank # Null
        /\ r.time = row.time /\ r.time # Null

\* the loop of INSERT OR IGNORE statements over the list; the value is the
\* table and the last id used
RECURSIVE InsertResults(_, _, _, _)
InsertResults(rows, last_id, stage_id, list) ==
    IF list = <<>> THEN [rows |-> rows, last_id |-> last_id]
    ELSE LET row == [id |-> last_id + 1, stage_id |-> stage_id,
                     rider |-> Head(list).rider, rank |-> Head(list).rank,
                     time |-> Head(list).time]
         IN  IF Conflicts(rows, row)
             THEN InsertResults(rows, last_id, stage_id, Tail(list))
             ELSE InsertResults(rows \cup {row}, last_id + 1, stage_id,
                                Tail(list))

\* the database as one value
Db ==
    [races |-> races, stages |-> stages, results |-> results,
     sequence |-> sequence]

\* a save_race_data whose overwrite deletes the race row and nothing else
save_race_dataMut(db, cfg, year, data) ==
    LET existing == ExistingRace(db.races, year, data)
        overwrite == existing # <<>> /\ cfg.overwrite_existing_data
        new_id == db.sequence.races + 1
    IN  IF existing # <<>> /\ ~overwrite
        THEN [db |-> db, value |-> existing[1]]
        ELSE [db |->
                [db EXCEPT
                   !.races = {r \in @ : ~(overwrite /\ r.id = existing[1])}
                               \cup {[id |-> new_id, year |-> year,
                                      race_name |-> data.race_name,
                                      race_key |->
                                        generate_race_key(year, data.race_name),
                                      stage_url |-> data.stage_url]},
                   !.sequence.races = new_id],
              value |-> new_id]

\* save_race_data: the database it leaves and the id it returns
save_race_data(db, cfg, year, data) ==
    LET existing == ExistingRace(db.races, year, data)
        overwrite == existing # <<>> /\ cfg.overwrite_existing_data
        gone_stages == IF overwrite
                       THEN {s \in db.stages : s.race_id = existing[1]}
                       ELSE {}
        new_id == db.sequence.races + 1
    IN  IF existing # <<>> /\ ~overwrite
        THEN [db |-> db, value |-> existing[1]]
        ELSE [db |->
                [db EXCEPT
                   !.results = {r \in @ :
                                  r.stage_id \notin {s.id : s \in gone_stages}},
                   !.stages = @ \ gone_stages,
                   !.races = {r \in @ : ~(overwrite /\ r.id = existing[1])}
                               \cup {[id |-> new_id, year |-> year,
                                      race_name |-> data.race_name,
                                      race_key |->
                                        generate_race_key(year, data.race_name),
                                      stage_url |-> data.stage_url]},
                   !.sequence.races = new_id],
              value |-> new_id]

\* save_stage_data: the database it leaves and the id it returns
save_stage_data(db, cfg, race_id, data) ==
    LET existing ==
            FetchOneId({s \in db.stages : s.stage_url = data.stage_url})
        should_overwrite == cfg.overwrite_existing_data \/ cfg.overwrite_stages
        new_id == db.sequence.stages + 1
    IN  IF existing # <<>>
        THEN [db |->
                IF should_overwrite
                THEN [db EXCEPT !.stages =
                        {IF s.stage_url = data.stage_url
                         THEN [s EXCEPT !.race_id = race_id,
                                        !.distance = data.distance]
                         ELSE s : s \in @}]
                ELSE db,
              value |-> existing[1]]
        ELSE [db |->
                [db EXCEPT
                   !.stages = @ \cup
                      {[id |-> new_id, race_id |-> race_id,
                        stage_url |-> data.stage_url,
                        distance |-> data.distance]},
                   !.sequence.stages = new_id],
              value |-> new_id]

\* save_results_data: the database it leaves; it returns nothing
save_results_data(db, cfg, stage_id, list) ==
    LET existing_count ==
            Cardinality({r \in db.results : r.stage_id = stage_id})
        should_overwrite == cfg.overwrite_existing_data \/ cfg.overwrite_results
        kept == IF existing_count > 0 /\ should_overwrite
                THEN {r \in db.results : r.stage_id # stage_id}
                ELSE db.results
        done == InsertResults(kept, db.sequence.results, stage_id, list)
    IN  IF (existing_count > 0 /\ ~should_overwrite) \/ list = <<>>
        THEN \* `return` before any commit: a DELETE made is rolled back
             [db |-> db, value |-> Null]
        ELSE [db |-> [db EXCEPT !.results = done.rows,
                                !.sequence.results = done.last_id],
              value |-> Null]

SetDb(db) ==
    /\ races' = db.races
    /\ stages' = db.stages
    /\ results' = db.results
    /\ sequence' = db.sequence

\* a save called on its own: the database changes, the call returns
DbCall(op, args, out) ==
    /\ db_ops < MaxDbOps
    /\ db_ops' = db_ops + 1
    /\ SetDb(out.db)
    /\ db_returned' = <<[op |-> op, args |-> args, value |-> out.value]>>
    /\ UNCHANGED config

SaveRace(year, data) ==
    DbCall("save_race_data", <<year, data>>,
           save_race_data(Db, config, year, data))
SaveStage(race_id, data) ==
    DbCall("save_stage_data", <<race_id, data>>,
           save_stage_data(Db, config, race_id, data))
SaveResults(stage_id, list) ==
    DbCall("save_results_data", <<stage_id, list>>,
           save_results_data(Db, config, stage_id, list))

(***************************************************************************)
(* Saves run concurrently: each save has its own connection; its SELECTs   *)
(* read the committed database, its first writing statement takes the      *)
(* write lock, which commit releases                                       *)
(***************************************************************************)
\* the coroutines that save
Savers == {1, 2}

NoCall ==
    [op |-> "", year |-> 0, data |-> <<>>, race_id |-> 0, existing |-> <<>>,
     value |-> <<>>]

InitSave ==
    /\ save_pc = [t \in Savers |-> "idle"]
    /\ save_call = [t \in Savers |-> NoCall]
    /\ writer = 0
    /\ pending = <<>>
    /\ save_calls = 0

\* a UNIQUE column: the value is held by a committed row
KeyTakenMut(rows, key) == FALSE

KeyTaken(rows, key) == \E r \in rows : r.key = key

\* the three DELETE statements of an overwrite of a race
RaceDeleted(db, race_id) ==
    LET gone_stages == {s \in db.stages : s.race_id = race_id} IN
    [db EXCEPT !.results = {r \in @ :
                              r.stage_id \notin {s.id : s \in gone_stages}},
               !.stages = @ \ gone_stages,
               !.races = {r \in @ : r.id # race_id}]
\* INSERT INTO races
RaceInserted(db, year, data) ==
    [db EXCEPT !.races = @ \cup
                  {[id |-> db.sequence.races + 1, year |-> year,
                    race_name |-> data.race_name,
                    race_key |-> generate_race_key(year, data.race_name),
                    stage_url |-> data.stage_url]},
               !.sequence.races = @ + 1]
\* UPDATE stages ... WHERE stage_url = ?
StageUpdated(db, race_id, data) ==
    [db EXCEPT !.stages = {IF s.stage_url = data.stage_url
                           THEN [s EXCEPT !.race_id = race_id,
                                          !.distance = data.distance]
                           ELSE s : s \in @}]
\* INSERT INTO stages
StageInserted(db, race_id, data) ==
    [db EXCEPT !.stages = @ \cup
                  {[id |-> db.sequence.stages + 1, race_id |-> race_id,
                    stage_url |-> data.stage_url,
                    distance |-> data.distance]},
               !.sequence.stages = @ + 1]

\* the save of coroutine t goes to the await `at`, or returns `value`
SaveAt(t, at, existing) ==
    /\ save_pc' = [save_pc EXCEPT ![t] = at]
    /\ save_call' = [save_call EXCEPT ![t].existing = existing]
SaveReturns(t, value) ==
    /\ save_pc' = [save_pc EXCEPT ![t] = "done"]
    /\ save_call' = [save_call EXCEPT ![t].value = value]

\* a coroutine calls save_race_data / save_stage_data
BeginSaveRace(t, year, data) ==
    /\ save_pc[t] \in {"idle", "done"}
    /\ save_calls < MaxSaves
    /\ save_calls' = save_calls + 1
    /\ save_pc' = [save_pc EXCEPT ![t] = "select_key"]
    /\ save_call' = [save_call EXCEPT ![t] =
                        [NoCall EXCEPT !.op = "race", !.year = year,
                                       !.data = <<data>>]]
    /\ UNCHANGED <<writer, pending, dbVars>>
BeginSaveStage(t, race_id, data) ==
    /\ save_pc[t] \in {"idle", "done"}
    /\ save_calls < MaxSaves
    /\ save_calls' = save_calls + 1
    /\ save_pc' = [save_pc EXCEPT ![t] = "select_stage"]
    /\ save_call' = [save_call EXCEPT ![t] =
                        [NoCall EXCEPT !.op = "stage", !.race_id = race_id,
                                       !.data = <<data>>]]
    /\ UNCHANGED <<writer, pending, dbVars>>

\* what follows the lookups: return the stored id, overwrite, or insert
AfterSelect(t, existing, overwrite, rewrite) ==
    IF existing = <<>> THEN SaveAt(t, "insert", <<>>)
    ELSE IF overwrite THEN SaveAt(t, rewrite, existing)
    ELSE SaveReturns(t, existing)

\* one SELECT of a save and the branch taken on its row
Select(t) ==
    /\ save_pc[t] \in {"select_key", "select_old", "select_url", "select_stage"}
    /\ LET c == save_call[t]
           d == c.data[1]
           found ==
             CASE save_pc[t] = "select_key" ->
                    FetchOneId({r \in races :
                        r.race_key = generate_race_key(c.year, d.race_name)})
               [] save_pc[t] = "select_old" ->
                    FetchOneId({r \in races :
                        r.race_key = old_race_key(c.year, d.race_name)})
               [] save_pc[t] = "select_url" ->
                    FetchOneId({r \in races :
                        r.stage_url = d.stage_url /\ r.year = c.year})
               [] OTHER ->
                    FetchOneId({s \in stages : s.stage_url = d.stage_url})
       IN  CASE save_pc[t] = "select_key" /\ found = <<>> ->
                    SaveAt(t, "select_old", <<>>)
             [] save_pc[t] = "select_old" /\ found = <<>> ->
                    SaveAt(t, "select_url", <<>>)
             [] save_pc[t] = "select_stage" ->
                    AfterSelect(t, found,
                        config.overwrite_existing_data \/ config.overwrite_stages,
                        "update")
             [] OTHER ->
                    AfterSelect(t, found, config.overwrite_existing_data,
                                "delete")
    /\ UNCHANGED <<writer, pending, save_calls, dbVars>>

\* the first writing statement of a transaction: it takes the write lock; an
\* INSERT of a key that a committed row holds raises IntegrityError, which
\* the save catches, returning None
Write(t) ==
    /\ save_pc[t] \in {"delete", "update", "insert"}
    /\ writer = 0
    /\ LET c == save_call[t]
           d == c.data[1]
           taken == IF c.op = "race"
                    THEN KeyTaken({[key |-> r.race_key] : r \in races},
                                  generate_race_key(c.year, d.race_name))
                    ELSE KeyTaken({[key |-> s.stage_url] : s \in stages},
                                  d.stage_url)
       IN  IF save_pc[t] = "insert" /\ taken
           THEN /\ SaveReturns(t, <<>>)
                /\ UNCHANGED <<writer, pending>>
           ELSE /\ writer' = t
                /\ pending' =
                     << CASE save_pc[t] = "delete" ->
                               RaceDeleted(Db, c.existing[1])
                          [] save_pc[t] = "update" ->
                               StageUpdated(Db, c.race_id, d)
                          [] OTHER ->
                               IF c.op = "race"
                               THEN RaceInserted(Db, c.year, d)
                               ELSE StageInserted(Db, c.race_id, d) >>
                /\ SaveAt(t, CASE save_pc[t] = "delete" -> "delete_commit"
                               [] save_pc[t] = "update" -> "update_commit"
                               [] OTHER -> "insert_commit",
                          c.existing)
    /\ UNCHANGED <<save_calls, dbVars>>

\* await db.commit(): the transaction becomes the committed database
Commit(t) ==
    /\ save_pc[t] \in {"delete_commit", "update_commit", "insert_commit"}
    /\ writer = t
    /\ SetDb(pending[1])
    /\ writer' = 0
    /\ pending' = <<>>
    /\ CASE save_pc[t] = "delete_commit" -> SaveAt(t, "insert", <<>>)
         [] save_pc[t] = "update_commit" ->
                SaveReturns(t, save_call[t].existing)
         [] OTHER ->
                SaveReturns(t, << IF save_call[t].op = "race"
                                  THEN pending[1].sequence.races
                                  ELSE pending[1].sequence.stages >>)
    /\ UNCHANGED <<save_calls, config, db_returned, db_ops>>

\* a writing statement finds the database locked by the other connection
\* for longer than the busy timeout: OperationalError, caught, None returned
Locked(t) ==
    /\ save_pc[t] \in {"delete", "update", "insert"}
    /\ writer \notin {0, t}
    /\ SaveReturns(t, <<>>)
    /\ UNCHANGED <<writer, pending, save_calls, dbVars>>

(***************************************************************************)
(* Classification pages: _find_classification_table and                    *)
(* _score_classification_table                                             *)
(***************************************************************************)
\* a table: the lower-cased texts of its header cells, and per data row
\* (the rows after the first) the text of the first cell and whether a cell
\* of the row holds a time gap (':' with '+' or 'h').  First cells: a rank
\* up to 10, a rank above 10, a text that is no number, a text of digit
\* characters that are no decimal digits (str.isdigit() is true of it and
\* int() raises ValueError, as for a superscript two), and a row without
\* cells.
Row(first_cell, gap) == [first_cell |-> first_cell, gap |-> gap]
Table(headers, rows) == [headers |-> headers, rows |-> rows]
PageTables ==
    { \* stage results
      Table({"rnk", "gc", "time", "pnt", "rider"},
            <<Row("1", FALSE), Row("2", FALSE), Row("3", FALSE)>>),
      \* general classification
      Table({"rnk", "prev", "▼▲", "rider", "time"},
            <<Row("1", FALSE), Row("2", TRUE), Row("3", TRUE)>>),
      \* general classification, fewer indicators
      Table({"prev", "time won/lost"}, <<Row("1", FALSE)>>),
      \* points classification
      Table({"rnk", "rider", "pnt"}, <<Row("1", FALSE), Row("12", FALSE)>>),
      \* a table without header cells and rows
      Table({}, <<>>),
      \* a table whose first cells are footnote marks
      Table({"rider"}, <<Row("", FALSE), Row("²", FALSE)>>) }

\* the pages' URLs
ClassificationUrls ==
    {"race/a/2020/stage-1-gc", "race/a/2020/stage-1-points",
     "race/a/2020/stage-1-kom", "race/a/2020/stage-1-youth",
     "race/a/2020/stage-1/gc", "race/a/2020/stage-1/points",
     "race/a/2020/stage-1/kom", "race/a/2020/stage-1/youth"}
\* the chain of `'/gc' in classification_url` tests; "None" when none holds
classification_type(url) ==
    CASE url = "race/a/2020/stage-1/gc" -> "gc"
      [] url = "race/a/2020/stage-1/points" -> "points"
      [] url = "race/a/2020/stage-1/kom" -> "kom"
      [] url = "race/a/2020/stage-1/youth" -> "youth"
      [] OTHER -> None

\* str.isdigit() and int() on the first cells of the model
IsDigit(text) ==
    text \in {"0", "1", "2", "3", "5", "10", "12", "250", "500", "501",
              "850", "²"}
IntOf(text) ==
    CASE text = "1" -> <<1>>
      [] text = "2" -> <<2>>
      [] text = "3" -> <<3>>
      [] text = "12" -> <<12>>
      [] text = "0" -> <<0>>
      [] text = "5" -> <<5>>
      [] text = "10" -> <<10>>
      [] text = "250" -> <<250>>
      [] text = "500" -> <<500>>
      [] text = "501" -> <<501>>
      [] text = "850" -> <<850>>
      [] OTHER -> <<>>   \* ValueError

\* the score of the header part, in tenths; each substring test is the set
\* of the model's headers that contain the substring
HeaderScore(headers, type) ==
    \* 'rnk' in h or 'rank' in h
    (IF \E h \in headers : h = "rnk" THEN 3 ELSE 0)
    + (IF type = "gc"
       THEN \* 'time' in h
            (IF \E h \in headers : h \in {"time", "time won/lost"}
             THEN 2 ELSE 0)
            \* 'prev' in h
            + (IF \E h \in headers : h = "prev" THEN 4 ELSE 0)
            \* an arrow in header_text
            + (IF \E h \in headers : h = "▼▲" THEN 4 ELSE 0)
            \* 'time won' in h or 'time lost' in h
            + (IF \E h \in headers : h = "time won/lost" THEN 3 ELSE 0)
            \* 'gc' == h
            - (IF "gc" \in headers THEN 5 ELSE 0)
       ELSE IF type \in {"points", "kom"}
       THEN \* 'pnt' in h or 'point' in h
            (IF \E h \in headers : h = "pnt" THEN 4 ELSE 0)
       ELSE 0)

\* the loop over the first three data rows: the score they add, in tenths,
\* and whether int() raised
RECURSIVE RowsScore(_, _)
RowsScore(rows, type) ==
    IF rows = <<>> THEN [raised |-> FALSE, score |-> 0]
    ELSE LET row == Head(rows)
             rest == RowsScore(Tail(rows), type)
         IN  IF row.first_cell = "none" THEN rest
             ELSE IF IsDigit(row.first_cell) /\ IntOf(row.first_cell) = <<>>
             THEN [raised |-> TRUE, score |-> 0]
             ELSE [raised |-> rest.raised,
                   score |-> rest.score
                     + (IF IsDigit(row.first_cell)
                           /\ IntOf(row.first_cell)[1] <= 10 THEN 1 ELSE 0)
                     + (IF type = "gc" /\ row.gap THEN 1 ELSE 0)]

\* _score_classification_table: the score in tenths, or the exception
_score_classification_table(table, type) ==
    LET rows == RowsScore(SubSeq(table.rows, 1, Min(3, Len(table.rows))), type)
    IN  [raised |-> rows.raised,
         score |-> Min(HeaderScore(table.headers, type) + rows.score, 10)]

\* `table_score > 0.7`: the float sum of terms that add up to seven tenths
\* compares above 0.7 or not, depending on the terms (`above`)
Confident(score, above) == score > 7 \/ (score = 7 /\ above)

\* the fallback of _find_classification_table: the second table if there
\* are two, else the first, else None (index 0)
Fallback(n) == IF n >= 2 THEN 2 ELSE IF n >= 1 THEN 1 ELSE 0

\* _find_classification_table from table i on: the index of the table it
\* returns (0 for None), or the exception it lets pass
RECURSIVE FindFrom(_, _, _, _)
FindFrom(tables, i, type, above) ==
    IF i > Len(tables)
    THEN [raised |-> FALSE, index |-> Fallback(Len(tables))]
    ELSE LET sc == _score_classification_table(tables[i], type) IN
         IF sc.raised THEN [raised |-> TRUE, index |-> 0]
         ELSE IF Confident(sc.score, above)
         THEN [raised |-> FALSE, index |-> i]
         ELSE FindFrom(tables, i + 1, type, above)
_find_classification_table(tables, url, above) ==
    FindFrom(tables, 1, classification_type(url), above)

\* the page lists of at most MaxTables tables
RECURSIVE TableLists(_)
TableLists(n) ==
    IF n = 0 THEN {<<>>}
    ELSE LET shorter == TableLists(n - 1) IN
         shorter \cup {Append(l, t) : l \in shorter, t \in PageTables}

InitTables ==
    /\ all_tables = <<>>
    /\ classification_url = ""
    /\ chosen = <<>>

\* a classification page has been fetched and parsed
PageFetched(tables, url) ==
    /\ chosen = <<>>
    /\ classification_url = ""
    /\ all_tables' = tables
    /\ classification_url' = url
    /\ UNCHANGED chosen

\* _find_classification_table is called on the page
FindClassificationTable(above) ==
    /\ classification_url # ""
    /\ chosen = <<>>
    /\ chosen' = <<_find_classification_table(all_tables, classification_url,
                                               above)>>
    /\ UNCHANGED <<all_tables, classification_url>>

(***************************************************************************)
(* Crawl driver: main (main.py) and scrape_years_with_progress /           *)
(* scrape_year_with_progress of ImprovedAsyncCyclingDataScraper            *)
(***************************************************************************)
\* the races the index pages of a year list
RacesOf(year) ==
    IF year = 2020 THEN <<"race/a/2020", "race/b/2020">> ELSE <<>>

\* the race_info a race page can yield
RaceInfos(race_url) ==
    IF race_url = "race/a/2020"
    THEN { [race_name |-> <<"Tour">>, stage_url |-> "race/a/2020/stage-1"],
           [race_name |-> <<"»", "Tour", "2020">>,
            stage_url |-> "race/a/2020/stage-1"] }
    ELSE { [race_name |-> <<"Giro">>, stage_url |-> "race/b/2020/stage-1"] }

\* fetches: of the index pages of a year, of a race page, of a stage page of
\* a race; ok is whether make_request returned the page
IndexPage(year, ok) ==
    [kind |-> "index", year |-> year, race |-> "", ok |-> ok]
RacePage(year, race_url, ok) ==
    [kind |-> "race", year |-> year, race |-> race_url, ok |-> ok]
StagePage(year, race_url, ok) ==
    [kind |-> "stage", year |-> year, race |-> race_url, ok |-> ok]

\* the results a stage page can yield during a crawl: none, two riders, one
\* rider twice
StageResults ==
    { <<>>,
      <<Result("a", "1", "4:00:00"), Result("b", "2", "4:00:05")>>,
      <<Result("a", Null, Null), Result("a", Null, Null)>> }

\* the years the command line names
CrawlTargets == {<<2020>>, <<2019, 2020>>}

InitCrawl ==
    /\ crawl_pc = "idle"
    /\ remaining_years = <<>>
    /\ years_todo = <<>>
    /\ batch = <<>>
    /\ race_infos = <<>>
    /\ fetched = {}
    /\ at_start = [years |-> {}, races |-> {}, corrupt |-> FALSE]
    /\ runs = 0

\* estimate_completion: the session it leaves (saved when it changed)
estimate_completion(cp) ==
    IF cp = <<>> THEN cp
    ELSE IF cp[1].completed_years = {} THEN cp
    ELSE <<[cp[1] EXCEPT !.estimated_completion = TRUE]>>

\* the tracker state a sequence of tracker calls leaves: session and files
Tracked(cp, fs) == [cp |-> cp, fs |-> fs]
Saved(cp, fs) ==
    Tracked(cp, IF cp = <<>> THEN fs ELSE Last(save_progress(cp, fs)))
CheckpointMade(t, same_second) ==
    LET steps == create_checkpoint(t.cp, t.fs, TRUE, same_second) IN
    Tracked(Checkpointed(t.cp, TRUE),
            IF steps = <<>> THEN t.fs ELSE Last(steps))
Reported(t) ==
    IF estimate_completion(t.cp) = t.cp THEN t
    ELSE Saved(estimate_completion(t.cp), t.fs)
SetTracker(t) ==
    /\ current_progress' = t.cp
    /\ SetFiles(t.fs)

\* get_status_report called on its own: it calls estimate_completion, and
\* returns the text, of which the model keeps the numbers
GetStatusReport(target) ==
    /\ alive
    /\ LET t == Reported(Tracked(current_progress, FileSystem)) IN
       /\ SetTracker(t)
       /\ returned' =
            <<[op |-> "get_status_report", args |-> <<target>>,
               value |->
                 IF current_progress = <<>> THEN <<>>
                 ELSE <<[completed |->
                           Cardinality(current_progress[1].completed_years),
                         total |-> Len(target),
                         failed |->
                           Cardinality(current_progress[1].failed_years),
                         eta |-> t.cp[1].estimated_completion]>>]>>
    /\ UNCHANGED <<alive, database_exists, next_session, crashed_op>>

\* the process ends: the next run is a new process
Exit(t) ==
    /\ current_progress' = <<>>
    /\ SetFiles(t.fs)
    /\ crawl_pc' = "idle"
    /\ remaining_years' = <<>>
    /\ years_todo' = <<>>
    /\ batch' = <<>>
    /\ race_infos' = <<>>

\* main up to the call of scrape_years_with_progress: the database is
\* initialised, the session started or resumed, the remaining years computed
Main(resume, target) ==
    /\ alive
    /\ crawl_pc = "idle"
    /\ runs < MaxRuns
    /\ runs' = runs + 1
    /\ database_exists' = TRUE
    /\ fetched' = {}
    /\ LET existing == load_progress(progress_file)
           resumed == existing # <<>> /\ resume
           t == IF resumed THEN Tracked(existing, FileSystem)
                ELSE Saved(<<ScrapingProgress(next_session)>>, FileSystem)
           remaining == get_remaining_years(t.cp, target)
       IN  /\ resumed \/ next_session <= MaxSessions
           /\ next_session' = IF resumed THEN next_session ELSE next_session + 1
           /\ at_start' = [years |-> t.cp[1].completed_years,
                           races |-> t.cp[1].completed_races,
                           corrupt |-> progress_file # <<>> /\ existing = <<>>]
           /\ IF remaining = <<>>
              THEN Exit(Reported(t))
              ELSE /\ SetTracker(t)
                   /\ crawl_pc' = "year"
                   /\ remaining_years' = remaining
                   /\ years_todo' = remaining
                   /\ UNCHANGED <<batch, race_infos>>
    /\ UNCHANGED <<alive, crashed_op, returned, ops, fetchVars, otherVars, dbVars>>

\* scrape_year_with_progress up to the processing of the batch: the index
\* pages are fetched, then the race page of every race of the batch
GetRaces(found, infos) ==
    /\ crawl_pc = "year"
    /\ years_todo # <<>>
    /\ LET year == Head(years_todo)
           race_urls == IF found THEN RacesOf(year) ELSE <<>>
       IN  IF race_urls = <<>>
           THEN /\ infos = <<>>
                /\ fetched' = fetched \cup {IndexPage(year, found)}
                /\ years_todo' = Tail(years_todo)
                /\ UNCHANGED <<crawl_pc, batch, race_infos>>
           ELSE /\ DOMAIN infos = 1..Len(race_urls)
                /\ \A i \in DOMAIN infos :
                      infos[i] = <<>> \/
                      \E info \in RaceInfos(race_urls[i]) : infos[i] = <<info>>
                /\ fetched' = fetched \cup {IndexPage(year, TRUE)}
                      \cup {RacePage(year, race_urls[i], infos[i] # <<>>) :
                                i \in DOMAIN infos}
                /\ batch' = race_urls
                /\ race_infos' = infos
                /\ crawl_pc' = "race"
                /\ UNCHANGED years_todo
    /\ UNCHANGED <<trackerVars, ops, fetchVars, otherVars, dbVars, at_start, runs,
                   remaining_years>>

\* what gather can return for the race pages of a batch
InfoLists ==
    {<<>>} \cup
    {<<a, b>> : a \in {<<>>} \cup {<<i>> : i \in RaceInfos("race/a/2020")},
                b \in {<<>>} \cup {<<i>> : i \in RaceInfos("race/b/2020")}}

\* one iteration of `for race_url, race_info in zip(batch, race_infos)`: the
\* race is skipped, or marked failed for want of its race_info, or saved, its
\* stage page fetched and saved, and marked completed.  The saves return an
\* id here; the branches taken when a save or the loop body raises are left
\* out.
ProcessRace(stage_found, list) ==
    /\ crawl_pc = "race"
    /\ batch # <<>>
    /\ LET year == Head(years_todo)
           race_url == Head(batch)
           race_info == Head(race_infos)
           t == Tracked(current_progress, FileSystem)
       IN  IF should_skip_race(current_progress, race_url)
           THEN /\ ~stage_found /\ list = <<>>
                /\ UNCHANGED <<trackerVars, dbVars, fetched>>
           ELSE IF race_info = <<>>
           THEN /\ ~stage_found /\ list = <<>>
                /\ SetTracker(Saved(<<race_failed(current_progress[1], race_url)>>,
                                    FileSystem))
                /\ UNCHANGED <<alive, database_exists, next_session, crashed_op,
                               returned, dbVars, fetched>>
           ELSE LET r == save_race_data(Db, config, year, race_info[1])
                    st == save_stage_data(r.db, config, r.value,
                             [stage_url |-> race_info[1].stage_url,
                              distance |-> "165.1"])
                    rs == save_results_data(st.db, config, st.value, list)
                IN  /\ stage_found \/ list = <<>>
                    /\ fetched' = fetched \cup {StagePage(year, race_url, stage_found)}
                    /\ SetDb(IF stage_found THEN rs.db ELSE r.db)
                    /\ SetTracker(Saved(
                         <<race_completed(current_progress[1], race_url,
                              IF stage_found THEN 1 ELSE 0, Len(list))>>,
                         FileSystem))
                    /\ UNCHANGED <<alive, database_exists, next_session,
                                   crashed_op, returned, config, db_returned,
                                   db_ops>>
    /\ batch' = Tail(batch)
    /\ race_infos' = Tail(race_infos)
    /\ crawl_pc' = IF Tail(batch) = <<>> THEN "year_end" ELSE "race"
    /\ UNCHANGED <<remaining_years, years_todo, at_start, runs, ops, fetchVars, otherVars>>

\* the end of scrape_year_with_progress: the timed checkpoint when it is due,
\* and the checkpoint "Completed year"
EndYear(due, same_second) ==
    /\ crawl_pc = "year_end"
    /\ LET t0 == Tracked(current_progress, FileSystem)
           t1 == IF due THEN CheckpointMade(t0, FALSE) ELSE t0
       IN  SetTracker(CheckpointMade(t1, same_second))
    /\ years_todo' = Tail(years_todo)
    /\ crawl_pc' = "year"
    /\ UNCHANGED <<alive, database_exists, next_session, crashed_op, returned,
                   ops, fetchVars, otherVars, dbVars, batch, race_infos, fetched,
                   at_start, runs, remaining_years>>

\* the end of scrape_years_with_progress and of main: the final checkpoint
\* and the final status report
EndRun(same_second) ==
    /\ crawl_pc = "year"
    /\ years_todo = <<>>
    /\ Exit(Reported(CheckpointMade(Tracked(current_progress, FileSystem),
                                    same_second)))
    /\ UNCHANGED <<alive, database_exists, next_session, crashed_op, returned,
                   ops, fetchVars, otherVars, dbVars, fetched, at_start, runs>>

\* an exception escapes the body of scrape_year_with_progress (get_races
\* re-raises what it caught): the handler of scrape_year_with_progress marks
\* the year failed and re-raises, scrape_years_with_progress lets it pass,
\* and main marks remaining_years[0] failed and exits
YearRaises ==
    /\ crawl_pc = "year"
    /\ years_todo # <<>>
    /\ fetched' = fetched \cup {IndexPage(Head(years_todo), FALSE)}
    /\ LET t1 == Saved(<<year_failed(current_progress[1], Head(years_todo))>>,
                       FileSystem)
           t2 == Saved(<<year_failed(t1.cp[1], Head(remaining_years))>>, t1.fs)
       IN  Exit(t2)
    /\ UNCHANGED <<alive, database_exists, next_session, crashed_op, returned,
                   ops, fetchVars, otherVars, dbVars, at_start, runs>>

\* the process is killed between two steps of a run
Kill ==
    /\ crawl_pc # "idle"
    /\ Exit(Tracked(current_progress, FileSystem))
    /\ UNCHANGED <<alive, database_exists, next_session, crashed_op, returned,
                   ops, fetchVars, otherVars, dbVars, fetched, at_start, runs>>

(***************************************************************************)
(* An interrupted crawl and its re-run over the same pages                 *)
(***************************************************************************)
\* what the pages of the site yield, the same in every run: per race its
\* race_info and the results of its stage
SiteRaces == {RacesOf(2020)[i] : i \in DOMAIN RacesOf(2020)}
Contents ==
    { c \in [SiteRaces -> [race_info : UNION {RaceInfos(r) : r \in SiteRaces},
                           results : StageResults]] :
        \A r \in SiteRaces : c[r].race_info \in RaceInfos(r) }
PageInfos(c, race_urls) ==
    [i \in DOMAIN race_urls |-> <<c[race_urls[i]].race_info>>]

\* the writes of one race in their order: save_race_data, save_stage_data,
\* save_results_data; each commits on its own
RaceWrites(db, cfg, year, page) ==
    LET r == save_race_data(db, cfg, year, page.race_info)
        st == save_stage_data(r.db, cfg, r.value,
                 [stage_url |-> page.race_info.stage_url,
                  distance |-> "165.1"])
        rs == save_results_data(st.db, cfg, st.value, page.results)
    IN  [race |-> r.db, stage |-> st.db, results |-> rs.db]
WritePoints == {"race", "stage", "results"}

\* the database a run that is never interrupted leaves
RECURSIVE WrittenFrom(_, _, _, _)
WrittenFrom(db, cfg, c, race_urls) ==
    IF race_urls = <<>> THEN db
    ELSE WrittenFrom(RaceWrites(db, cfg, 2020, c[Head(race_urls)]).results,
                     cfg, c, Tail(race_urls))
EmptyDb ==
    [races |-> {}, stages |-> {}, results |-> {},
     sequence |-> [races |-> 0, stages |-> 0, results |-> 0]]
Uninterrupted(c) == WrittenFrom(EmptyDb, DefaultPolicy, c, RacesOf(2020))

\* the index and race pages of the year, as the site yields them
GetRacesOfSite ==
    /\ content # <<>>
    /\ years_todo # <<>>
    /\ GetRaces(TRUE, PageInfos(content[1], RacesOf(Head(years_todo))))

\* one race processed to its completion mark, its pages as the site yields
\* them
ProcessRaceOfSite ==
    /\ content # <<>>
    /\ batch # <<>>
    /\ ProcessRace(TRUE, content[1][Head(batch)].results)

\* the process dies inside the processing of a race, after the write `point`
\* and before the next one
DieInRace(point) ==
    /\ crawl_pc = "race"
    /\ content # <<>>
    /\ batch # <<>>
    /\ ~should_skip_race(current_progress, Head(batch))
    /\ LET year == Head(years_todo)
           race_url == Head(batch)
           w == RaceWrites(Db, config, year, content[1][race_url])
       IN  /\ SetDb(w[point])
           /\ fetched' = IF point = "race" THEN fetched
                         ELSE fetched \cup {StagePage(year, race_url, TRUE)}
    /\ interrupted' = point
    /\ Exit(Tracked(current_progress, FileSystem))
    /\ UNCHANGED <<alive, database_exists, next_session, crashed_op, returned,
                   ops, fetchVars, config, db_returned, db_ops, at_start, runs,
                   content, saveVars, tableVars, callVars>>

\* between two runs the progress file is damaged: its JSON text is cut short
\* or garbled, so that json.load raises on it
Damage ==
    /\ crawl_pc = "idle"
    /\ progress_file # <<>>
    /\ progress_file[1].complete
    /\ progress_file' = File(progress_file[1].data, FALSE)
    /\ UNCHANGED <<alive, current_progress, temp_file, backups, database_exists,
                   next_session, crashed_op, returned, ops, fetchVars,
                   otherVars, dbVars, crawlVars>>

\* target_years lists: every list of at most MaxTarget years
RECURSIVE ListsUpTo(_)
ListsUpTo(n) ==
    IF n = 0 THEN {<<>>}
    ELSE LET shorter == ListsUpTo(n - 1) IN
         shorter \cup {Append(l, y) : l \in shorter, y \in Years}
TargetLists == ListsUpTo(MaxTarget)

(***************************************************************************)
(* Specifications                                                          *)
(***************************************************************************)
InitParts == InitFetch /\ InitTracker /\ InitDb /\ InitCrawl

\* no scenario is set up
\* no call made yet
InitCalls ==
    /\ unlinked = 0
    /\ evaluated = <<>>

InitOther ==
    /\ content = <<>>
    /\ interrupted = ""
    /\ InitSave
    /\ InitTables
    /\ InitCalls

\* the default configuration
Init == InitParts /\ InitOther /\ config = DefaultPolicy

\* a configuration built from the command-line flags
InitConfigured == InitParts /\ InitOther /\ config \in Policies

\* the fetch client alone: concurrent make_request calls
NextFetch ==
    \/ \E t \in Tasks, arg \in RetryArgs :
          MakeRequest(t, arg) /\ UNCHANGED <<trackerVars, ops, dbVars, crawlVars, otherVars>>
    \/ \E t \in Tasks : Acquire(t) /\ UNCHANGED <<trackerVars, ops, dbVars, crawlVars, otherVars>>
    \/ \E t \in Tasks, status \in Statuses :
          Respond(t, status) /\ UNCHANGED <<trackerVars, ops, dbVars, crawlVars, otherVars>>
    \/ \E t \in Tasks : WakeUp(t) /\ UNCHANGED <<trackerVars, ops, dbVars, crawlVars, otherVars>>
    \/ \E t \in Tasks : Return(t) /\ UNCHANGED <<trackerVars, ops, dbVars, crawlVars, otherVars>>
SpecFetch == Init /\ [][NextFetch]_vars

\* the tracker's operations in any order, no crash
NextTracker ==
    \/ \E resume \in BOOLEAN :
          start_session(resume, 0) /\ UNCHANGED <<fetchVars, otherVars, ops, dbVars, crawlVars>>
    \/ \E y \in Years, same \in BOOLEAN :
          mark_year_completed(y, same, 0) /\ UNCHANGED <<fetchVars, otherVars, ops, dbVars, crawlVars>>
    \/ \E y \in Years : mark_year_failed(y, 0) /\ UNCHANGED <<fetchVars, otherVars, ops, dbVars, crawlVars>>
    \/ \E r \in Races, n \in CountArgs :
          mark_race_completed(r, n, 0) /\ UNCHANGED <<fetchVars, otherVars, ops, dbVars, crawlVars>>
    \/ \E r \in Races : mark_race_failed(r, 0) /\ UNCHANGED <<fetchVars, otherVars, ops, dbVars, crawlVars>>
    \/ reset_session /\ UNCHANGED <<fetchVars, otherVars, ops, dbVars, crawlVars>>
SpecTracker == Init /\ [][NextTracker]_vars

\* the tracker's operations with a crash of the process possible at every
\* point of every save, and restarts; at most MaxOps steps
Counted == ops < MaxOps /\ ops' = ops + 1 /\ UNCHANGED <<fetchVars, otherVars, dbVars, crawlVars>>
NextCrash ==
    \/ \E resume \in BOOLEAN, c \in CrashPoints :
          start_session(resume, c) /\ Counted
    \/ \E y \in Years, same \in BOOLEAN, c \in CrashPoints :
          mark_year_completed(y, same, c) /\ Counted
    \/ \E y \in Years, c \in CrashPoints : mark_year_failed(y, c) /\ Counted
    \/ \E r \in Races, n \in CountArgs, c \in CrashPoints :
          mark_race_completed(r, n, c) /\ Counted
    \/ \E r \in Races, c \in CrashPoints : mark_race_failed(r, c) /\ Counted
    \/ reset_session /\ Counted
    \/ Crash /\ Counted
    \/ Restart /\ Counted
SpecCrash == Init /\ [][NextCrash]_vars

\* year marks and get_remaining_years
NextRemaining ==
    \/ \E resume \in BOOLEAN :
          start_session(resume, 0) /\ UNCHANGED <<fetchVars, otherVars, ops, dbVars, crawlVars>>
    \/ \E y \in Years, same \in BOOLEAN :
          mark_year_completed(y, same, 0) /\ UNCHANGED <<fetchVars, otherVars, ops, dbVars, crawlVars>>
    \/ \E y \in Years : mark_year_failed(y, 0) /\ UNCHANGED <<fetchVars, otherVars, ops, dbVars, crawlVars>>
    \/ \E target \in TargetLists :
          GetRemainingYears(target) /\ UNCHANGED <<fetchVars, otherVars, ops, dbVars, crawlVars>>
\* the database file does not exist yet, so no backup is ever made
InitRemaining == Init /\ ~database_exists
SpecRemaining == InitRemaining /\ [][NextRemaining]_vars

\* marks of years and races, and the skip questions asked of the session
NextSkip ==
    \/ \E resume \in BOOLEAN :
          start_session(resume, 0) /\ UNCHANGED <<fetchVars, otherVars, ops, dbVars, crawlVars>>
    \/ \E y \in Years, same \in BOOLEAN :
          mark_year_completed(y, same, 0) /\ UNCHANGED <<fetchVars, otherVars, ops, dbVars, crawlVars>>
    \/ \E y \in Years : mark_year_failed(y, 0) /\ UNCHANGED <<fetchVars, otherVars, ops, dbVars, crawlVars>>
    \/ \E r \in Races, n \in CountArgs :
          mark_race_completed(r, n, 0) /\ UNCHANGED <<fetchVars, otherVars, ops, dbVars, crawlVars>>
    \/ \E r \in Races : mark_race_failed(r, 0) /\ UNCHANGED <<fetchVars, otherVars, ops, dbVars, crawlVars>>
    \/ reset_session /\ UNCHANGED <<fetchVars, otherVars, ops, dbVars, crawlVars>>
    \/ \E y \in Years : ShouldSkipYear(y) /\ UNCHANGED <<fetchVars, otherVars, ops, dbVars, crawlVars>>
    \/ \E r \in Races : ShouldSkipRace(r) /\ UNCHANGED <<fetchVars, otherVars, ops, dbVars, crawlVars>>
SpecSkip == InitRemaining /\ [][NextSkip]_vars

\* sessions started and checkpoints made, the database present
NextBackups ==
    \/ \E resume \in BOOLEAN :
          start_session(resume, 0) /\ UNCHANGED <<fetchVars, otherVars, ops, dbVars, crawlVars>>
    \/ \E y \in Years : mark_year_failed(y, 0) /\ UNCHANGED <<fetchVars, otherVars, ops, dbVars, crawlVars>>
    \/ reset_session /\ UNCHANGED <<fetchVars, otherVars, ops, dbVars, crawlVars>>
    \/ \E same_second \in BOOLEAN :
          CreateCheckpoint(same_second)
            /\ UNCHANGED <<fetchVars, recoveryVars, saveVars, tableVars, ops,
                           dbVars, crawlVars>>
InitBackups == Init /\ database_exists
SpecBackups == InitBackups /\ [][NextBackups]_vars

\* marks of years and races, and status reports asked for
NextReport ==
    \/ \E resume \in BOOLEAN :
          start_session(resume, 0) /\ UNCHANGED <<fetchVars, otherVars, ops, dbVars, crawlVars>>
    \/ \E y \in Years, same \in BOOLEAN :
          mark_year_completed(y, same, 0) /\ UNCHANGED <<fetchVars, otherVars, ops, dbVars, crawlVars>>
    \/ \E y \in Years : mark_year_failed(y, 0) /\ UNCHANGED <<fetchVars, otherVars, ops, dbVars, crawlVars>>
    \/ \E r \in Races, n \in CountArgs :
          mark_race_completed(r, n, 0) /\ UNCHANGED <<fetchVars, otherVars, ops, dbVars, crawlVars>>
    \/ \E target \in CrawlTargets :
          GetStatusReport(target) /\ UNCHANGED <<fetchVars, otherVars, ops, dbVars, crawlVars>>
SpecReport == InitRemaining /\ [][NextReport]_vars

\* every operation of the tracker that changes the session, at most MaxOps
\* of them in a behaviour
NextRoundTrip ==
    \/ \E resume \in BOOLEAN : start_session(resume, 0) /\ Counted
    \/ \E y \in Years, same \in BOOLEAN :
          mark_year_completed(y, same, 0) /\ Counted
    \/ \E y \in Years : mark_year_failed(y, 0) /\ Counted
    \/ \E r \in Races, n \in CountArgs :
          mark_race_completed(r, n, 0) /\ Counted
    \/ \E r \in Races : mark_race_failed(r, 0) /\ Counted
    \/ reset_session /\ Counted
    \/ \E same_second \in BOOLEAN :
          /\ CreateCheckpoint(same_second)
          /\ ops < MaxOps
          /\ ops' = ops + 1
          /\ UNCHANGED <<fetchVars, recoveryVars, saveVars, tableVars,
                         dbVars, crawlVars>>
SpecRoundTrip == InitBackups /\ [][NextRoundTrip]_vars

\* the three save operations in any order, at most MaxDbOps of them
NextDb ==
    \/ \E year \in DbYears, data \in RaceData :
          SaveRace(year, data)
            /\ UNCHANGED <<fetchVars, otherVars, trackerVars, ops, crawlVars>>
    \/ \E race \in races, data \in StageData :
          SaveStage(race.id, data)
            /\ UNCHANGED <<fetchVars, otherVars, trackerVars, ops, crawlVars>>
    \/ \E stage \in stages, list \in ResultLists :
          SaveResults(stage.id, list)
            /\ UNCHANGED <<fetchVars, otherVars, trackerVars, ops, crawlVars>>
SpecDb == InitConfigured /\ [][NextDb]_vars

\* runs of main, each to its end or killed on the way
NextCrawl ==
    \/ \E resume \in BOOLEAN, target \in CrawlTargets : Main(resume, target)
    \/ \E found \in BOOLEAN, infos \in InfoLists : GetRaces(found, infos)
    \/ \E stage_found \in BOOLEAN, list \in StageResults :
          ProcessRace(stage_found, list)
    \/ \E due \in BOOLEAN, same_second \in BOOLEAN : EndYear(due, same_second)
    \/ \E same_second \in BOOLEAN : EndRun(same_second)
    \/ YearRaises
    \/ Kill
\* the scraper creates the database when it is constructed
InitRun == InitConfigured /\ database_exists
SpecCrawl == InitRun /\ [][NextCrawl]_vars

\* runs of main over one site, each to its end or dying on the way, between
\* two races or between two writes of a race
NextRecovery ==
    \/ \E resume \in BOOLEAN, target \in CrawlTargets : Main(resume, target)
    \/ GetRacesOfSite
    \/ ProcessRaceOfSite
    \/ \E point \in WritePoints : DieInRace(point)
    \/ \E due \in BOOLEAN, same_second \in BOOLEAN : EndYear(due, same_second)
    \/ \E same_second \in BOOLEAN : EndRun(same_second)
    \/ Kill
InitRecovery ==
    /\ InitParts
    /\ InitSave
    /\ InitTables
    /\ InitCalls
    /\ config = DefaultPolicy
    /\ database_exists
    /\ content \in {<<c>> : c \in Contents}
    /\ interrupted = ""
SpecRecovery == InitRecovery /\ [][NextRecovery]_vars

\* saves of races and stages by two coroutines, interleaved at every await
NextSave ==
    \/ \E t \in Savers, year \in DbYears, data \in RaceData :
          BeginSaveRace(t, year, data)
            /\ UNCHANGED <<fetchVars, trackerVars, ops, crawlVars, recoveryVars, tableVars, callVars>>
    \/ \E t \in Savers, race \in races, data \in StageData :
          BeginSaveStage(t, race.id, data)
            /\ UNCHANGED <<fetchVars, trackerVars, ops, crawlVars, recoveryVars, tableVars, callVars>>
    \/ \E t \in Savers :
          Select(t)
            /\ UNCHANGED <<fetchVars, trackerVars, ops, crawlVars, recoveryVars, tableVars, callVars>>
    \/ \E t \in Savers :
          Write(t)
            /\ UNCHANGED <<fetchVars, trackerVars, ops, crawlVars, recoveryVars, tableVars, callVars>>
    \/ \E t \in Savers :
          Commit(t)
            /\ UNCHANGED <<fetchVars, trackerVars, ops, crawlVars, recoveryVars, tableVars, callVars>>
    \/ \E t \in Savers :
          Locked(t)
            /\ UNCHANGED <<fetchVars, trackerVars, ops, crawlVars, recoveryVars, tableVars, callVars>>
SpecSave == InitConfigured /\ [][NextSave]_vars

\* classification pages and the table chosen on each
NextTables ==
    \/ \E tables \in TableLists(MaxTables), url \in ClassificationUrls :
          PageFetched(tables, url)
            /\ UNCHANGED <<fetchVars, trackerVars, ops, dbVars, crawlVars,
                           recoveryVars, saveVars, callVars>>
    \/ \E above \in BOOLEAN :
          FindClassificationTable(above)
            /\ UNCHANGED <<fetchVars, trackerVars, ops, dbVars, crawlVars,
                           recoveryVars, saveVars, callVars>>
SpecTables == Init /\ [][NextTables]_vars

\* runs of main under the default configuration, the progress file damaged
\* between runs
NextDamaged ==
    \/ \E resume \in BOOLEAN, target \in CrawlTargets : Main(resume, target)
    \/ \E found \in BOOLEAN, infos \in InfoLists : GetRaces(found, infos)
    \/ \E stage_found \in BOOLEAN, list \in StageResults :
          ProcessRace(stage_found, list)
    \/ \E due \in BOOLEAN, same_second \in BOOLEAN : EndYear(due, same_second)
    \/ \E same_second \in BOOLEAN : EndRun(same_second)
    \/ Damage
InitDamaged == Init /\ database_exists
SpecDamaged == InitDamaged /\ [][NextDamaged]_vars

(***************************************************************************)
(* Claims                                                                  *)
(***************************************************************************)
InFlight == {t \in Tasks : pc[t] = "inflight"}

\* C1: at every moment the number of requests in flight is at most
\* max_concurrent_requests, whatever the interleaving of the calls.
C1_InFlightBounded == Cardinality(InFlight) <= MaxConcurrent

\* the limit is reached while another call waits for a permit
C1_Witness ==
    /\ Cardinality(InFlight) = MaxConcurrent
    /\ \E t \in Tasks : pc[t] = "acquire"

\* C9: a call whose latest attempt received 404 has returned failure; no
\* sleep and no further attempt follows the 404.
C9_NotFoundTerminal ==
    \A t \in Tasks :
        last_status[t] = "404" => pc[t] = "done" /\ result[t] = None

\* a 404 arrives on the first attempt of a call that had retries left
C9_Witness ==
    \E t \in Tasks :
        /\ last_status[t] = "404"
        /\ attempt[t] = 0
        /\ max_retries[t] > 0
        /\ pc[t] = "done"

\* C10: the wait after attempt k, when a retry follows, is retry_delay * 2^k.
C10_ExponentialBackoff ==
    \A t \in Tasks :
        (pc[t] = "sleep" /\ attempt[t] < max_retries[t])
            => wait_time[t] = retry_delay * Pow2(attempt[t])

\* C11: within one call the retry delays are non-decreasing: a wait that a
\* retry follows is at least as long as the call's previous wait.
C11_DelaysNonDecreasing ==
    \A t \in Tasks :
        (pc[t] = "sleep" /\ attempt[t] < max_retries[t])
            => wait_time[t] >= prev_wait[t]

\* a call is exhausted when the attempt that ends is its last one
\* (attempt = max_retries) and its outcome is a retryable one
Retryable == {"429", "500", "timeout", "error"}
Exhausts(t) ==
    /\ pc[t] \in {"inflight", "sleep"}
    /\ pc'[t] = "done"
    /\ attempt[t] = max_retries[t]
    /\ last_status'[t] \in Retryable

\* C12: a call that exhausts its retries returns failure and adds exactly one
\* to the failed-requests counter, whatever its last outcome was.
C12_ExhaustedCountsOneFailure ==
    [][\A t \in Tasks :
          Exhausts(t) =>
              /\ result'[t] = None
              /\ stats'.failed_requests = stats.failed_requests + 1]_vars

\* the part that holds: exhaustion on a 429 counts one failure
ExhaustedOn429CountsOneFailure ==
    [][\A t \in Tasks :
          (Exhausts(t) /\ last_status'[t] = "429") =>
              /\ result'[t] = None
              /\ stats'.failed_requests = stats.failed_requests + 1]_vars

(***************************************************************************)
(* Tracker claims                                                          *)
(***************************************************************************)
CompletedYears == IF current_progress = <<>> THEN {}
                  ELSE current_progress[1].completed_years
FailedYears == IF current_progress = <<>> THEN {}
               ELSE current_progress[1].failed_years
CompletedRaces == IF current_progress = <<>> THEN {}
                  ELSE current_progress[1].completed_races
FailedRaces == IF current_progress = <<>> THEN {}
               ELSE current_progress[1].failed_races

\* positions of a target list whose year is neither completed nor failed
PendingAt(target) ==
    {i \in 1..Len(target) :
        target[i] \notin CompletedYears /\ target[i] \notin FailedYears}

\* C3: get_remaining_years returns exactly the target years that are in
\* neither completed_years nor failed_years, in the caller's order: the k-th
\* returned year is the target's year at its k-th pending position.
C3_RemainingExact ==
    returned # <<>> =>
        LET t == returned[1].args
            r == returned[1].value
            idx == PendingAt(t)
        IN  /\ Len(r) = Cardinality(idx)
            /\ \A i \in idx :
                  r[Cardinality({j \in idx : j <= i})] = t[i]

\* the scenario of the specification: 2020 completed, [2019,2020,2021]
C3_Witness ==
    /\ returned # <<>>
    /\ CompletedYears = {2020}
    /\ returned[1].args = <<2019, 2020, 2021>>
    /\ returned[1].value = <<2019, 2021>>

\* the session of a state: <<>> when none, else <<session_id>>
SessionOf(cp) == IF cp = <<>> THEN <<>> ELSE <<cp[1].session_id>>

\* two consecutive states of one session, no reset in between
SameSession ==
    /\ current_progress # <<>>
    /\ current_progress' # <<>>
    /\ SessionOf(current_progress) = SessionOf(current_progress')

\* C4 as stated: within one session a completed unit is never afterwards
\* recorded as failed, a failed unit is never afterwards recorded as
\* completed, and the completed and failed sets are disjoint.
C4_BothTerminal ==
    [][SameSession =>
        /\ CompletedYears \cap (FailedYears' \ FailedYears) = {}
        /\ FailedYears \cap (CompletedYears' \ CompletedYears) = {}
        /\ CompletedRaces \cap (FailedRaces' \ FailedRaces) = {}
        /\ FailedRaces \cap (CompletedRaces' \ CompletedRaces) = {}
        /\ CompletedYears' \cap FailedYears' = {}
        /\ CompletedRaces' \cap FailedRaces' = {}]_vars

\* C4 as amended: within one session a completed unit stays completed; a unit
\* leaves the failed set only by being recorded as completed, and a unit that
\* is newly recorded as completed is not in the failed set.
C4_CompletedTerminal ==
    [][SameSession =>
        /\ CompletedYears \subseteq CompletedYears'
        /\ CompletedRaces \subseteq CompletedRaces'
        /\ (FailedYears \ FailedYears') \subseteq CompletedYears'
        /\ (FailedRaces \ FailedRaces') \subseteq CompletedRaces'
        /\ (CompletedYears' \ CompletedYears) \cap FailedYears' = {}
        /\ (CompletedRaces' \ CompletedRaces) \cap FailedRaces' = {}]_vars

\* a completed year and a completed race were marked failed and are still
\* in the completed sets
C4_Witness ==
    /\ CompletedYears \cap FailedYears # {}
    /\ CompletedRaces \cap FailedRaces # {}

\* C5: the checkpoint file is never partial, and after a crash inside an
\* operation it holds the complete state it held before the operation or a
\* complete state the operation was saving.
C5_AtomicSave ==
    /\ progress_file # <<>> => progress_file[1].complete
    /\ crashed_op # <<>> =>
          \/ progress_file = crashed_op[1].before
          \/ \E d \in crashed_op[1].saving :
                progress_file = File(to_json(d), TRUE)

\* a crash in the middle of writing the new state, the previous state on disk
C5_Witness ==
    /\ crashed_op # <<>>
    /\ temp_file # <<>>
    /\ ~temp_file[1].complete
    /\ progress_file # <<>>
    /\ progress_file[1].data \notin {to_json(d) : d \in crashed_op[1].saving}

(***************************************************************************)
(* Persistence claims                                                      *)
(***************************************************************************)
SkipIfExists ==
    /\ ~config.overwrite_existing_data
    /\ ~config.overwrite_stages
    /\ ~config.overwrite_results

\* one row per stable key: races by race_key, stages by stage_url
RaceKeysUnique == \A r1, r2 \in races : r1.race_key = r2.race_key => r1 = r2
StageUrlsUnique == \A s1, s2 \in stages : s1.stage_url = s2.stage_url => s1 = s2

\* results by (stage, rider identity)
RidersUnique ==
    \A r1, r2 \in results :
        (r1.stage_id = r2.stage_id /\ r1.rider = r2.rider) => r1 = r2

\* a save of a race returns the id of the row that holds the race's key
ReturnsKeyedRace ==
    (db_returned # <<>> /\ db_returned[1].op = "save_race_data") =>
        \A r \in races :
            r.race_key = generate_race_key(db_returned[1].args[1],
                                           db_returned[1].args[2].race_name)
                => db_returned[1].value = r.id

\* the race and stage part of upsert stability, under every policy
RaceAndStageRowsStable ==
    RaceKeysUnique /\ StageUrlsUnique /\ ReturnsKeyedRace

\* under skip-if-exists a save onto a stage that has rows changes nothing
RepeatedResultsSaveIsNoOp ==
    [][(SkipIfExists /\ results' # results) =>
          \E st \in stages :
              /\ \A r \in results : r.stage_id # st.id
              /\ \A r \in results' \ results : r.stage_id = st.id]_vars

\* C6: under skip-if-exists, after any number of saves there is exactly one
\* row per stable key (race_key, stage_url, (stage, rider)), and a save of a
\* race returns the id of the one row that holds its key.
C6_SkipOneRowPerKey ==
    SkipIfExists =>
        /\ RaceKeysUnique
        /\ StageUrlsUnique
        /\ RidersUnique
        /\ ReturnsKeyedRace

\* C17: in every committed state each stage row references an existing
\* race row and each result row an existing stage row, whatever the saves
\* and overwrites made.
C17_ReferencesExist ==
    /\ \A s \in stages : \E r \in races : r.id = s.race_id
    /\ \A x \in results : \E s \in stages : s.id = x.stage_id
\* an overwrite of a race has deleted its stage and the stage's results
C17_Witness ==
    /\ config.overwrite_existing_data
    /\ db_returned # <<>>
    /\ db_returned[1].op = "save_race_data"
    /\ sequence.results > 0
    /\ results = {}
    /\ stages = {}
    /\ races # {}

\* the rows a results list asks for
RowsOf(list) == {list[i] : i \in 1..Len(list)}
Stored(stage_id) ==
    {Result(r.rider, r.rank, r.time) : r \in {x \in results : x.stage_id = stage_id}}

\* C7: under overwrite, after a save the stable key of what was saved has
\* exactly one row and the row holds the values just saved: the race row its
\* name and first stage url, the stage row its race and distance, and the
\* stage's result rows one row per rider with the values of the saved list.
C7_OverwriteLatestValues ==
    (config.overwrite_existing_data /\ db_returned # <<>>) =>
        LET op == db_returned[1].op
            args == db_returned[1].args
        IN  /\ op = "save_race_data" =>
                  \E r \in races :
                      /\ r.race_key = generate_race_key(args[1], args[2].race_name)
                      /\ r.race_name = args[2].race_name
                      /\ r.stage_url = args[2].stage_url
                      /\ \A q \in races : q.race_key = r.race_key => q = r
            /\ op = "save_stage_data" =>
                  \E st \in stages :
                      /\ st.stage_url = args[2].stage_url
                      /\ st.distance = args[2].distance
                      /\ st.race_id = args[1]
                      /\ \A q \in stages : q.stage_url = st.stage_url => q = st
            /\ op = "save_results_data" =>
                  /\ Stored(args[1]) = RowsOf(args[2])
                  /\ \A r1, r2 \in results :
                        (r1.stage_id = args[1] /\ r2.stage_id = args[1]
                            /\ r1.rider = r2.rider) => r1 = r2

\* the overwrite of a stage's results by a list of distinct riders
OverwriteOfDistinctRiders ==
    (config.overwrite_existing_data /\ db_returned # <<>>
        /\ db_returned[1].op = "save_results_data"
        /\ db_returned[1].args[2] # <<>>
        /\ \A i, j \in 1..Len(db_returned[1].args[2]) :
              db_returned[1].args[2][i].rider = db_returned[1].args[2][j].rider
                  => i = j)
    => /\ Stored(db_returned[1].args[1]) = RowsOf(db_returned[1].args[2])
       /\ Cardinality({r \in results : r.stage_id = db_returned[1].args[1]})
             = Len(db_returned[1].args[2])

\* C8: no stage has two stored result rows with the same rider identity.
C8_RiderUniquePerStage ==
    \A st \in stages :
        \A r1, r2 \in {r \in results : r.stage_id = st.id} :
            r1.rider = r2.rider => r1.id = r2.id

(***************************************************************************)
(* Crawl claims                                                            *)
(***************************************************************************)
\* C2: in a run started from a session in which a year or a race is in the
\* completed set, no page of that unit is fetched: not the index pages of a
\* completed year, not the race page or a stage page of a completed race.
C2_NoFetchOfCompletedUnit ==
    \A page \in fetched :
        /\ page.year \notin at_start.years
        /\ page.race \notin at_start.races

Processed(race_url) ==
    /\ crawl_pc \in {"race", "year_end"}
    /\ \A i \in DOMAIN batch : batch[i] # race_url

\* C14: a race of which a page fetch failed in this run (its race page or a
\* stage page), once the loop has dealt with it, is recorded as failed and
\* not as completed.
C14_FailedFetchMakesRaceFailed ==
    \A page \in fetched :
        (/\ page.kind \in {"race", "stage"}
         /\ ~page.ok
         /\ page.race \notin at_start.races
         /\ Processed(page.race))
        => /\ page.race \in FailedRaces
           /\ page.race \notin CompletedRaces

\* the part that holds: a race whose race page could not be fetched is
\* recorded as failed
FailedRacePageMakesRaceFailed ==
    \A page \in fetched :
        (/\ page.kind = "race"
         /\ ~page.ok
         /\ page.race \notin at_start.races
         /\ Processed(page.race))
        => /\ page.race \in FailedRaces
           /\ page.race \notin CompletedRaces

\* the part that holds: no stage page of a race completed at the start of
\* the run is fetched
NoStageFetchOfCompletedRace ==
    \A page \in fetched :
        page.kind = "stage" => page.race \notin at_start.races


\* the races the tracker's file records as completed
RecordedCompleted ==
    IF load_progress(progress_file) = <<>> THEN {}
    ELSE load_progress(progress_file)[1].completed_races

\* C15: whatever the points at which earlier runs died, between two races or
\* between two dependent writes of a race, once a run under skip-if-exists
\* has processed every race of the site to its completion mark the database
\* (rows and ids) is the one a run that was never interrupted leaves.
C15_InterruptedRunRecovers ==
    (content # <<>> /\ SiteRaces \subseteq RecordedCompleted)
    => Db = Uninterrupted(content[1])
C15_Witness ==
    /\ content # <<>>
    /\ SiteRaces \subseteq RecordedCompleted
    /\ interrupted = "stage"
    /\ results # {}
    /\ Db = Uninterrupted(content[1])


\* the saves of the two coroutines have both returned and had one key
SameKeySaves ==
    /\ \A t \in Savers : save_pc[t] = "done"
    /\ save_call[1].op = save_call[2].op
    /\ IF save_call[1].op = "race"
       THEN generate_race_key(save_call[1].year, save_call[1].data[1].race_name)
            = generate_race_key(save_call[2].year,
                                save_call[2].data[1].race_name)
       ELSE save_call[1].data[1].stage_url = save_call[2].data[1].stage_url
RowsWithKeyOf(t) ==
    IF save_call[t].op = "race"
    THEN {r \in races : r.race_key =
            generate_race_key(save_call[t].year, save_call[t].data[1].race_name)}
    ELSE {s \in stages : s.stage_url = save_call[t].data[1].stage_url}

StoredUnderOtherKey(t) ==
    {r \in races :
        /\ save_call[t].op = "race"
        /\ r.race_key # generate_race_key(save_call[t].year,
                                          save_call[t].data[1].race_name)
        /\ \/ r.race_key = old_race_key(save_call[t].year,
                                        save_call[t].data[1].race_name)
           \/ /\ r.stage_url = save_call[t].data[1].stage_url
              /\ r.year = save_call[t].year}

C18_ChoosesPresentTable ==
    (chosen # <<>> /\ all_tables # <<>>) =>
        /\ ~chosen[1].raised
        /\ chosen[1].index \in DOMAIN all_tables

\* the part that holds: a call that does not raise returns one of the
\* tables of the page
ChoosesPresentTableUnlessRaised ==
    (chosen # <<>> /\ all_tables # <<>> /\ ~chosen[1].raised) =>
        chosen[1].index \in DOMAIN all_tables


\* C19: should_skip_year(y) returns true exactly when y is in the session's
\* completed_years and should_skip_race(u) exactly when u is in its
\* completed_races; both return false when no session is active (the
\* completed sets are then empty) and for a unit that is only in a failed
\* set.
C19_SkipIffCompleted ==
    returned # <<>> =>
        /\ returned[1].op = "should_skip_year" =>
              (returned[1].value <=> returned[1].args[1] \in CompletedYears)
        /\ returned[1].op = "should_skip_race" =>
              (returned[1].value <=> returned[1].args[1] \in CompletedRaces)
\* should_skip_year has returned false for a year that failed
C19_Witness ==
    /\ returned # <<>>
    /\ returned[1].op = "should_skip_year"
    /\ returned[1].args[1] \in FailedYears \ CompletedYears
    /\ returned[1].value = FALSE


\* C20: a run that finds the progress file unreadable stops before any
\* crawl work: it is not in a year or a race and has fetched no page.
C20_CorruptStoreStopsRun ==
    at_start.corrupt => (crawl_pc = "idle" /\ fetched = {})


ReportStep == returned' # <<>> /\ returned'[1].op = "get_status_report"

\* C22: a call of get_status_report changes neither the session in memory
\* nor the progress file.
C22_ReportChangesNothing ==
    [][ReportStep => /\ current_progress' = current_progress
                     /\ progress_file' = progress_file]_vars

\* the part that holds: the call leaves the completed and failed sets and
\* the counters as they were
ReportKeepsSetsAndCounters ==
    [][(ReportStep /\ current_progress # <<>>) =>
          /\ current_progress' # <<>>
          /\ [current_progress'[1] EXCEPT !.estimated_completion = FALSE]
               = [current_progress[1] EXCEPT !.estimated_completion = FALSE]]_vars


\* the score of table i of the page for the page's classification type
ScoreAt(i) ==
    _score_classification_table(all_tables[i],
                                classification_type(classification_url))
\* the tables of the page that score above 0.7, none of the page's tables
\* making the scoring raise
ConfidentTables ==
    IF \E i \in DOMAIN all_tables : ScoreAt(i).raised THEN {}
    ELSE {i \in DOMAIN all_tables : ScoreAt(i).score > 7}

\* C23: when several tables of the page score above 0.7, the table
\* selected has the highest score of the page.
C23_HighestScoreSelected ==
    (chosen # <<>> /\ Cardinality(ConfidentTables) >= 2) =>
        /\ ~chosen[1].raised
        /\ chosen[1].index \in DOMAIN all_tables
        /\ \A i \in DOMAIN all_tables :
              ScoreAt(i).score <= ScoreAt(chosen[1].index).score

\* the part that holds: the table selected is the first of the page that
\* scores above 0.7
FirstConfidentSelected ==
    (chosen # <<>> /\ ConfidentTables # {}) =>
        /\ ~chosen[1].raised
        /\ chosen[1].index \in ConfidentTables
        /\ \A i \in ConfidentTables : chosen[1].index <= i


\* no table of the page reaches 0.7 for the page's classification type
NoConfidentTable ==
    \A i \in DOMAIN all_tables :
        ~ScoreAt(i).raised /\ ScoreAt(i).score < 7
\* the position the classification types have among the tables of a page,
\* counted from 0
PositionOf(type) ==
    CASE type = "gc" -> 1
      [] type = "points" -> 2
      [] type = "kom" -> 3
      [] type = "youth" -> 4
      [] OTHER -> 0

\* C24: when no table clears the threshold, the table selected is the one
\* at min(position of the type, number of tables - 1), counted from 0.
C24_FallbackIsPositional ==
    (/\ chosen # <<>>
     /\ all_tables # <<>>
     /\ classification_type(classification_url) # None
     /\ NoConfidentTable) =>
        /\ ~chosen[1].raised
        /\ chosen[1].index - 1 =
              Min(PositionOf(classification_type(classification_url)),
                  Len(all_tables) - 1)

\* the part that holds: without a confident table, the second table is
\* selected when there are two, else the first, else none; a GC page gets
\* the table at index 1 when there are two
FallbackIsSecondTable ==
    (chosen # <<>> /\ NoConfidentTable) =>
        /\ ~chosen[1].raised
        /\ chosen[1].index - 1 = Min(1, Len(all_tables) - 1)


(***************************************************************************)
(* Result rows: the loop over the cells of a row in parse_results_table    *)
(* (async_scraper.py) and enhanced_parse_results_table                     *)
(* (enhanced_async_scraper.py)                                             *)
(***************************************************************************)
\* the cells of a row after the first, which holds the rank or a status
MaxCells == 2
\* a cell: its text and its class ("" for a cell without class)
Cell(text, class) == [text |-> text, class |-> class]
RankTexts == {"12", "850", "DNF"}
CellTexts == {"Rider", "0", "5", "10", "12", "250", "500", "501", "850"}
CellClasses == {"", "pnt", "uci_pnt"}
Parsers == {"parse_results_table", "enhanced_parse_results_table"}

\* `int(rank_text) if rank_text.isdigit() else None`
RankOf(rank_text) == IF IsDigit(rank_text) THEN IntOf(rank_text) ELSE <<>>
\* the result of a row before its cells are looked at; a key that is not
\* in the result is <<>>
NewResult(rank_text) ==
    [rank |-> RankOf(rank_text), pcs_points |-> <<>>, uci_points |-> <<>>]

\* the body of the loop over the cells, for one cell; none of the model's
\* texts holds a colon, so the time branch is not taken
AssignPoints(parser, res, cell, secondary) ==
    LET numeric == IsDigit(cell.text) /\ IntOf(cell.text) # <<>>
                   /\ IntOf(cell.text)[1] > 0
        v == IntOf(cell.text)[1]
    IN  IF cell.class = "uci_pnt" /\ numeric
        THEN [res EXCEPT !.uci_points = <<v>>]
        ELSE IF cell.class = "pnt" /\ numeric
        THEN [res EXCEPT !.pcs_points = <<v>>]
        ELSE IF numeric
        THEN IF <<v>> = res.rank THEN res
             ELSE IF secondary THEN [res EXCEPT !.uci_points = <<v>>]
             ELSE IF parser = "parse_results_table"
             THEN \* `if 'pcs_points' not in result:` with the range test
                  \* inside it
                  IF res.pcs_points = <<>>
                  THEN IF 10 <= v /\ v <= 500
                       THEN [res EXCEPT !.pcs_points = <<v>>]
                       ELSE res
                  ELSE IF res.uci_points = <<>> /\ v > 500
                  THEN [res EXCEPT !.uci_points = <<v>>]
                  ELSE res
             ELSE \* `if 'pcs_points' not in result and 10 <= ... <= 500:`
                  IF res.pcs_points = <<>> /\ 10 <= v /\ v <= 500
                  THEN [res EXCEPT !.pcs_points = <<v>>]
                  ELSE IF res.uci_points = <<>> /\ v > 500
                  THEN [res EXCEPT !.uci_points = <<v>>]
                  ELSE res
        ELSE res

\* a row is begun: the rank is taken from the first cell, and the loop
\* looks at the first cell
BeginRow(parser, secondary, rank_text) ==
    /\ evaluated = <<>>
    /\ LET first == Cell(rank_text, "")
           new == NewResult(rank_text)
       IN  evaluated' = <<[op |-> parser, secondary |-> secondary,
                           cells |-> <<first>>, before |-> new,
                           value |-> AssignPoints(parser, new, first,
                                                  secondary)]>>
    /\ UNCHANGED <<fetchVars, trackerVars, ops, dbVars, crawlVars,
                   recoveryVars, saveVars, tableVars, unlinked>>

\* the loop looks at the next cell of the row
NextCell(cell) ==
    /\ evaluated # <<>>
    /\ Len(evaluated[1].cells) <= MaxCells
    /\ LET row == evaluated[1] IN
       evaluated' = <<[row EXCEPT
                         !.cells = Append(@, cell),
                         !.before = row.value,
                         !.value = AssignPoints(row.op, row.value, cell,
                                                row.secondary)]>>
    /\ UNCHANGED <<fetchVars, trackerVars, ops, dbVars, crawlVars,
                   recoveryVars, saveVars, tableVars, unlinked>>

NextRows ==
    \/ \E parser \in Parsers, secondary \in BOOLEAN, rank_text \in RankTexts :
          BeginRow(parser, secondary, rank_text)
    \/ \E text \in CellTexts, class \in CellClasses :
          NextCell(Cell(text, class))
SpecRows == Init /\ [][NextRows]_vars

\* the cell the loop has just looked at is a number without points label
\* that is not the rank, in a row that is not of a secondary classification
UnlabelledNumber ==
    /\ evaluated # <<>>
    /\ ~evaluated[1].secondary
    /\ Last(evaluated[1].cells).class = ""
    /\ IsDigit(Last(evaluated[1].cells).text)
    /\ IntOf(Last(evaluated[1].cells).text) # <<>>
    /\ IntOf(Last(evaluated[1].cells).text) # evaluated[1].before.rank
CellValue == IntOf(Last(evaluated[1].cells).text)[1]

\* C25: an unlabelled number that is not the rank goes to pcs_points when it
\* lies in [10,500] and pcs_points is not assigned yet, and to uci_points,
\* not to pcs_points, when it exceeds 500 and uci_points is not assigned yet.
C25_UnlabelledNumberAssigned ==
    UnlabelledNumber =>
        /\ (CellValue >= 10 /\ CellValue <= 500
               /\ evaluated[1].before.pcs_points = <<>>) =>
              evaluated[1].value.pcs_points = <<CellValue>>
        /\ (CellValue > 500 /\ evaluated[1].before.uci_points = <<>>) =>
              /\ evaluated[1].value.uci_points = <<CellValue>>
              /\ evaluated[1].value.pcs_points = evaluated[1].before.pcs_points

\* the part that holds: enhanced_parse_results_table assigns as C25 says,
\* and parse_results_table does once pcs_points is assigned
EnhancedParserAssigns ==
    (evaluated # <<>>
       /\ (evaluated[1].op = "enhanced_parse_results_table"
             \/ evaluated[1].before.pcs_points # <<>>)) =>
        C25_UnlabelledNumberAssigned


(***************************************************************************)
(* Classification ranks: _merge_classifications_into_results               *)
(***************************************************************************)
RiderUrls == {"rider/a", "rider/b"}
\* a row parse_results_table yields: the rider's URL and the rank, <<>> when
\* the first cell of the row is no number
Standing(rider_url, rank) == [rider_url |-> rider_url, rank |-> rank]
\* the lists a table yields: every rider at most once; a numbered row has
\* its position as rank
StandingLists ==
    {<<>>}
    \cup {<<Standing(r, k)>> : r \in RiderUrls, k \in {<<>>, <<1>>}}
    \cup {<<Standing(p[1], k1), Standing(p[2], k2)>> :
            p \in {q \in RiderUrls \X RiderUrls : q[1] # q[2]},
            k1 \in {<<>>, <<1>>}, k2 \in {<<>>, <<2>>}}
StageResultLists ==
    {<<>>}
    \cup {<<Standing(r, <<1>>)>> : r \in RiderUrls}
    \cup {<<Standing(p[1], <<1>>), Standing(p[2], <<2>>)>> :
            p \in {q \in RiderUrls \X RiderUrls : q[1] # q[2]}}
\* the stage_info after the fetches
StageInfos ==
    [results : StageResultLists, gc : StandingLists, points : StandingLists,
     kom : StandingLists, youth : StandingLists]

\* `{r.get('rider_url'): r for r in standings}.get(rider_url, {})`, then
\* `.get('rank')`: the rank of the last standing of the rider, <<>> for None
RECURSIVE RankIn(_, _)
RankIn(standings, rider_url) ==
    IF standings = <<>> THEN <<>>
    ELSE IF Last(standings).rider_url = rider_url THEN Last(standings).rank
    ELSE RankIn(SubSeq(standings, 1, Len(standings) - 1), rider_url)

\* as _merge_classifications_into_results, reading points_rank from the
\* general classification
_merge_classifications_into_resultsMut(stage_info) ==
    [n \in DOMAIN stage_info.results |->
        LET rider_url == stage_info.results[n].rider_url IN
        [rider_url |-> rider_url,
         rank |-> stage_info.results[n].rank,
         gc_rank |-> RankIn(stage_info.gc, rider_url),
         points_rank |-> RankIn(stage_info.gc, rider_url),
         kom_rank |-> RankIn(stage_info.kom, rider_url),
         youth_rank |-> RankIn(stage_info.youth, rider_url)]]
\* the results of the stage after the merge
_merge_classifications_into_results(stage_info) ==
    [n \in DOMAIN stage_info.results |->
        LET rider_url == stage_info.results[n].rider_url IN
        [rider_url |-> rider_url,
         rank |-> stage_info.results[n].rank,
         gc_rank |-> RankIn(stage_info.gc, rider_url),
         points_rank |-> RankIn(stage_info.points, rider_url),
         kom_rank |-> RankIn(stage_info.kom, rider_url),
         youth_rank |-> RankIn(stage_info.youth, rider_url)]]

\* get_stage_info merges the classifications it has fetched
MergeClassifications(stage_info) ==
    /\ evaluated = <<>>
    /\ evaluated' =
         <<[op |-> "_merge_classifications_into_results",
            args |-> stage_info,
            value |-> _merge_classifications_into_results(stage_info)]>>
    /\ UNCHANGED <<fetchVars, trackerVars, ops, dbVars, crawlVars,
                   recoveryVars, saveVars, tableVars, unlinked>>

NextMerge ==
    /\ evaluated = <<>>
    /\ \E stage_info \in StageInfos : MergeClassifications(stage_info)
SpecMerge == Init /\ [][NextMerge]_vars

\* the result's rank of a type and the standings of the type after a merge
ClassificationTypes == {"gc", "points", "kom", "youth"}
MergedRank(res, type) ==
    CASE type = "gc" -> res.gc_rank
      [] type = "points" -> res.points_rank
      [] type = "kom" -> res.kom_rank
      [] type = "youth" -> res.youth_rank
StandingsOf(stage_info, type) ==
    CASE type = "gc" -> stage_info.gc
      [] type = "points" -> stage_info.points
      [] type = "kom" -> stage_info.kom
      [] type = "youth" -> stage_info.youth
\* the places the rider of a result has in the standings of a type
PlacesOf(res, type) ==
    {k \in DOMAIN StandingsOf(evaluated[1].args, type) :
        StandingsOf(evaluated[1].args, type)[k].rider_url = res.rider_url}

SeasonYears ==
    {1903, 1915, 1919, 1920, 1935, 1949, 1950, 1965, 1979, 1980, 2020}
\* the most race URLs an index yields
MaxFound == 16

\* min_races_expected of adjust_expectations_for_year
adjust_expectations_for_year(year) ==
    IF year < 1920 THEN 1
    ELSE IF year < 1950 THEN 3
    ELSE IF year < 1980 THEN 8
    ELSE 15
\* `10 if year >= 1980 else (5 if year >= 1950 else 1)`
min_expected_races(year) ==
    IF year >= 1980 THEN 10 ELSE IF year >= 1950 THEN 5 ELSE 1

\* get_races has extracted `found` race URLs from the index of a year and
\* validates the count; it returns the URLs whatever the count
ValidateRaces(year, found) ==
    /\ evaluated = <<>>
    /\ evaluated' =
         <<[op |-> "get_races", args |-> <<year, found>>,
            value |-> [min_expected_races |-> min_expected_races(year),
                       logged |-> found < min_expected_races(year),
                       returned |-> found]]>>
    /\ UNCHANGED <<fetchVars, trackerVars, ops, dbVars, crawlVars,
                   recoveryVars, saveVars, tableVars, unlinked>>
\* enhance_historical_race_info attaches the expectations of the year to a
\* race_info
AdjustExpectations(year) ==
    /\ evaluated = <<>>
    /\ evaluated' =
         <<[op |-> "adjust_expectations_for_year", args |-> <<year, 0>>,
            value |-> [min_expected_races |->
                           adjust_expectations_for_year(year),
                       logged |-> FALSE, returned |-> 0]]>>
    /\ UNCHANGED <<fetchVars, trackerVars, ops, dbVars, crawlVars,
                   recoveryVars, saveVars, tableVars, unlinked>>

NextSeason ==
    \/ \E year \in SeasonYears, found \in 0..MaxFound :
          ValidateRaces(year, found)
    \/ \E year \in SeasonYears : AdjustExpectations(year)
SpecSeason == Init /\ [][NextSeason]_vars

\* the minimum by era: 1 before 1920, 3 up to 1949, 8 up to 1979, then 15
EraMinimum(year) ==
    CASE year < 1920 -> 1
      [] year >= 1920 /\ year < 1950 -> 3
      [] year >= 1950 /\ year < 1980 -> 8
      [] year >= 1980 -> 15

\* C27: the minimum the count of a year's extracted season index is
\* validated against is 1 before 1920, 3 for 1920-1949, 8 for 1950-1979
\* and 15 from 1980 on.
C27_IndexValidatedAgainstEraMinimum ==
    (evaluated # <<>> /\ evaluated[1].op = "get_races") =>
        /\ evaluated[1].value.min_expected_races
              = EraMinimum(evaluated[1].args[1])
        /\ evaluated[1].value.logged
              <=> evaluated[1].args[2] < EraMinimum(evaluated[1].args[1])

\* the part that holds: min_races_expected of adjust_expectations_for_year
\* is the minimum by era; get_races validates the count against 1 before
\* 1950, 5 for 1950-1979 and 10 from 1980 on
ExpectationsFollowEra ==
    /\ (evaluated # <<>>
          /\ evaluated[1].op = "adjust_expectations_for_year") =>
            evaluated[1].value.min_expected_races
                = EraMinimum(evaluated[1].args[1])
    /\ (evaluated # <<>> /\ evaluated[1].op = "get_races") =>
            evaluated[1].value.min_expected_races =
                (IF evaluated[1].args[1] < 1950 THEN 1
                 ELSE IF evaluated[1].args[1] < 1980 THEN 5 ELSE 10)


\* C28: a call make_request(url, max_retries=m) makes at most m + 1
\* attempts for every m >= 0 that is passed, m = 0 included, and the
\* configured max_retries bounds the attempts only when the argument is
\* omitted.
C28_PassedRetriesBoundAttempts ==
    [][\A t \in Tasks, arg \in RetryArgs :
          MakeRequest(t, arg) =>
              max_retries'[t] = (IF arg = <<>> THEN MaxRetries ELSE arg[1])]_vars

\* the part that holds: a call makes at most max_retries + 1 attempts, where
\* max_retries is the argument when it is passed and is not 0, and the
\* configured one otherwise
AttemptsBoundedByEffectiveRetries ==
    /\ [](\A t \in Tasks : attempt[t] <= max_retries[t])
    /\ [][\A t \in Tasks, arg \in RetryArgs :
            MakeRequest(t, arg) =>
                max_retries'[t] = (IF arg = <<>> \/ arg = <<0>> THEN MaxRetries
                                   ELSE arg[1])]_vars


\* scrape_year_with_progress returns for the year at the head of the list
\* without an exception
YearFinished == crawl_pc = "year_end" /\ crawl_pc' = "year"

\* C29: when the driver finishes a year without an exception escaping the
\* year's processing, the year is in completed_years afterwards.
C29_FinishedYearCompleted ==
    [][YearFinished =>
          /\ current_progress' # <<>>
          /\ Head(years_todo) \in current_progress'[1].completed_years]_vars

\* the part that holds: every run of the driver leaves completed_years as
\* it found it, so a later run over the same years gets the finished years
\* back from get_remaining_years unless they are recorded as failed
DriverKeepsCompletedYears ==
    (crawl_pc # "idle" /\ current_progress # <<>>) =>
        current_progress[1].completed_years = at_start.years


=============================================================================
